---- MODULE Spec2Model ----
(***************************************************************************)
(* Verification model of the repo_studios hygiene scripts:                 *)
(*   - scan_monkey_patches.py   (scan_file, MonkeyPatchScanner, main)      *)
(*   - monkey_patch_classify.py (classify)                                 *)
(*   - health_suite_orchestrator.py (run_step, main)                       *)
(*                                                                         *)
(* A source file is a sequence of lines.  Every line holds one statement   *)
(* (an abstract syntax node) at an indentation depth; a run of blank lines *)
(* may follow the first line.  A statement is rendered to a token sequence *)
(* for the regex pass, and walked as a syntax node by the tree pass.       *)
(***************************************************************************)
EXTENDS Integers, Sequences, FiniteSets, TLC

VARIABLES
    \* ---- scan_monkey_patches.main ----
    files,          \* the files iter_python_files yields, in order
    strict,         \* args.strict
    context_lines,    \* --context-lines
    idx,            \* number of files the loop has finished
    all_findings,   \* main.all_findings
    parse_errors,   \* main.parse_errors
    reports,        \* what write_reports received (NotWritten before)
    rc,             \* main's return value (NoRc before)
    pc,             \* position in main / scan_file
    \* ---- scan_file ----
    resolver,       \* ImportResolver state of the current file
    stack,          \* ScopeTracker.stack of the current file
    visitor,        \* which NodeVisitor walks the current subtree
    pos,            \* next line of the current file to visit
    findings,       \* scanner.findings / scan_file's result
    nTree,          \* number of findings when the tree pass ended
    \* ---- monkey_patch_classify.aggregate ----
    cl_findings,    \* the findings load_findings returned
    cl_i,           \* number of findings aggregate has classified
    buckets,        \* aggregate.buckets: risk level -> findings
    \* ---- health_suite_orchestrator.main / run_step ----
    steps,            \* make_steps(ts)
    live,             \* args.live
    step_timeout_sec, \* default_timeout_sec (0: None, no timeout)
    heartbeat_sec,    \* default_heartbeat_sec (0: None, no heartbeat)
    step_i,           \* number of steps main has finished
    orch_pc,          \* position in main / run_step
    run_steps,        \* run["steps"]
    status_json,      \* the steps written to status.json (Absent before)
    orch_rc,          \* main's return value (Absent before)
    proc,             \* the step's subprocess: "none", "running", "exited"
    returncode,       \* proc.returncode once it has exited
    stubborn,         \* the subprocess ignores SIGTERM
    sigterm_sent,     \* SIGTERM was sent to the step's subprocess
    sigkill_sent,     \* SIGKILL was sent to the step's subprocess
    hb_thread,        \* _heartbeat thread: "none", "sleeping", "grace", "ended"
    hb_deadline,      \* when the heartbeat thread's current wait times out
    elapsed,          \* time.time() - start of the running step
    os_environ,       \* os.environ of the orchestrator process
    proc_env,         \* the env= the step's subprocess was started with
    \* ---- scan_monkey_patches.write_reports ----
    with_git,         \* the with_git argument
    w_findings,       \* the findings list write_reports received (Finding objects)
    w_created,        \* the same findings as scan_file created them
    w_pc,             \* position in write_reports
    w_art,            \* index of the artifact being written
    w_i,              \* index in the current loop / chunks written so far
    w_files,          \* the output directory: artifact name -> content
    \* ---- validate_inventory.main / validate_file ----
    inv_files,        \* the inventory YAML files, in sorted order: lists of records
    v_fi,             \* number of files main has validated
    v_ri,             \* number of records validate_file's loop has seen
    v_pc,             \* position in main / validate_file
    v_issues,         \* report.issues
    seen_ids,         \* seen_ids: record id -> index of the file it was first seen in
    v_rc,             \* main's return value (NoRc before)
    \* ---- test_log_health_report._pick_best_junit ----
    j_dir,            \* the files of logs_dir matching junit*.*, in name order
    j_cands,          \* candidates
    j_pc,             \* position in _pick_best_junit
    j_i,              \* number of candidates the current pass has seen
    best,             \* index of the best candidate so far (0: None)
    best_total,       \* its total
    j_result,         \* the returned candidate (NoRc before, 0: None)
    \* ---- pytest_log_runner.main / run_pytest_and_capture ----
    pr_pc,            \* position in main / run_pytest_and_capture
    pr_supports,      \* the optional options pytest --help lists
    disable_xdist,    \* PYTEST_RUNNER_DISABLE_XDIST
    fallback_serial,  \* PYTEST_RUNNER_FALLBACK_SERIAL
    enable_sigusr1,   \* PYTEST_RUNNER_ENABLE_SIGUSR1
    passthrough,      \* the arguments passed through to pytest
    cmd,              \* main.cmd
    xdist_used,       \* main.xdist_used
    launched,         \* the commands run_pytest_and_capture was called with
    outcomes,         \* what each call returned: rc and terminated
    pr_rc,            \* main.rc
    terminated,       \* main.terminated
    pr_result,        \* main's return value (Absent before)
    pr_idle,          \* time since the child's last output, at the last iteration
    signaled_dump,    \* run_pytest_and_capture.signaled_dump
    loop_terminated,  \* run_pytest_and_capture.terminated
    pr_lines,         \* run_pytest_and_capture.lines
    signals,          \* the signals sent to the current child, in order
    child,            \* the pytest process: "none", "running", "exited"
    child_rc,         \* its exit status once it has exited
    \* ---- import_graph_report.main, health_suite_summary._load_import_graph ----
    ig_pc,            \* position in the two programs
    graph_keys,       \* graph.keys(), in dict order
    graph_adj,        \* graph[n], in the set's iteration order
    ig_cycles,        \* import_graph_report: cycles
    report_md,        \* the lines of report.md
    sum_cycles        \* the summary's Cycles (first 10) list

scanVars == <<files, strict, context_lines, idx, all_findings, parse_errors, reports, rc, pc,
              resolver, stack, visitor, pos, findings, nTree>>

clsVars == <<cl_findings, cl_i, buckets>>

orchVars == <<steps, live, step_timeout_sec, heartbeat_sec, step_i, orch_pc, run_steps,
              status_json, orch_rc, proc, returncode, stubborn, sigterm_sent,
              sigkill_sent, hb_thread, hb_deadline, elapsed, os_environ, proc_env>>

wrVars == <<with_git, w_findings, w_created, w_pc, w_art, w_i, w_files>>
valVars == <<inv_files, v_fi, v_ri, v_pc, v_issues, seen_ids, v_rc>>
junitVars == <<j_dir, j_cands, j_pc, j_i, best, best_total, j_result>>
runnerVars == <<pr_pc, pr_supports, disable_xdist, fallback_serial, enable_sigusr1,
                passthrough, cmd, xdist_used, launched, outcomes, pr_rc, terminated,
                pr_result, pr_idle, signaled_dump, loop_terminated, pr_lines, signals,
                child, child_rc>>
graphVars == <<ig_pc, graph_keys, graph_adj, ig_cycles, report_md, sum_cycles>>

vars == <<scanVars, clsVars, orchVars, wrVars, valVars, junitVars, runnerVars, graphVars>>

\* what each part of the model leaves alone
notScanVars == <<clsVars, orchVars, wrVars, valVars, junitVars, runnerVars, graphVars>>
notClsVars == <<scanVars, orchVars, wrVars, valVars, junitVars, runnerVars, graphVars>>
notOrchVars == <<scanVars, clsVars, wrVars, valVars, junitVars, runnerVars, graphVars>>
notWrVars == <<scanVars, clsVars, orchVars, valVars, junitVars, runnerVars, graphVars>>
notValVars == <<scanVars, clsVars, orchVars, wrVars, junitVars, runnerVars, graphVars>>
notJunitVars == <<scanVars, clsVars, orchVars, wrVars, valVars, runnerVars, graphVars>>
notRunnerVars == <<scanVars, clsVars, orchVars, wrVars, valVars, junitVars, graphVars>>
notGraphVars == <<scanVars, clsVars, orchVars, wrVars, valVars, junitVars, runnerVars>>

(***************************************************************************)
(* Bounds of the model                                                     *)
(***************************************************************************)
MaxLines == 3
MaxDepth == 2
MaxFiles == 2
MaxMainLines == 1
MaxReport == 2
MaxSteps == 2
MaxContext == 3
MaxRecords == 2
MaxJunit == 3
MaxClock == 9
TimeoutSec == 1
HeartbeatSec == 2
IdleTimeout == 2
EscalationGrace == 1
MaxTick == 2
MaxOutput == 2

(***************************************************************************)
(* Program constants                                                       *)
(***************************************************************************)
NoneVal == "<None>"
NotWritten == "<not written>"
NoRc == "<running>"

CATEGORY_ATTRIBUTE_REASSIGNMENT == "attribute_reassignment_on_import"
CATEGORY_SETATTR == "setattr_on_import_or_class"
CATEGORY_SYS_MODULES == "sys_modules_assignment"
CATEGORY_BUILTINS == "builtins_mutation"
CATEGORY_IMPORT_TIME == "import_time_side_effect"
CATEGORY_TEST_PATCH_MISUSE == "test_patch_misuse"
CATEGORY_GLOBAL_ENV == "global_env_mutation"
CATEGORY_SINGLETON_REBIND == "singleton_rebind"

INTENT_MODULE_INJECTION == "module injection/aliasing"
INTENT_OVERRIDE_THIRD_PARTY == "override third-party behavior"
INTENT_NON_SCOPED_TEST_PATCH == "non-scoped test patch"
INTENT_GLOBAL_RUNTIME_CHANGE == "global runtime change"
INTENT_IMPORT_TIME_OVERRIDE == "import-time behavior override"
INTENT_UNSPECIFIED == "unspecified monkey patch"

\* no module counts as a holder of singletons
NO_SINGLETON_BASES == {}

KNOWN_SINGLETON_BASES == {"logging", "warnings"}
DEFAULT_CONTEXT_LINES == 2
ImportWindow == 5
GraceSec == 5
TimeoutExitCode == 124

(***************************************************************************)
(* Syntax: expressions, statements, lines, files                           *)
(***************************************************************************)
Last(s) == s[Len(s)]
Front(s) == SubSeq(s, 1, Len(s) - 1)

\* target / argument expressions
SubscriptOf(value, key) == [t |-> "Subscript", value |-> value, key |-> key]
AttributeOf(dotted) == [t |-> "Attribute", dotted |-> dotted]
NameOf(id) == [t |-> "Name", id |-> id]

\* statements
ImportStmt(name, asname) == [kind |-> "Import", name |-> name, asname |-> asname]
ImportFromStmt(module, name, asname) ==
    [kind |-> "ImportFrom", module |-> module, name |-> name, asname |-> asname]
AssignStmt(targets) == [kind |-> "Assign", targets |-> targets]
AugAssignStmt(target) == [kind |-> "AugAssign", targets |-> <<target>>]
DeleteStmt(targets) == [kind |-> "Delete", targets |-> targets]
CallStmt(func, args) == [kind |-> "Call", func |-> func, args |-> args]
FunctionDefStmt(name) == [kind |-> "FunctionDef", name |-> name]
AsyncFunctionDefStmt(name) == [kind |-> "AsyncFunctionDef", name |-> name]
ClassDefStmt(name) == [kind |-> "ClassDef", name |-> name]
DecoratorStmt(dec, call) == [kind |-> "Decorator", dec |-> dec, call |-> call]
PassStmt == [kind |-> "Pass"]

SysModules(key) == SubscriptOf(<<"sys", "modules">>, key)
OsEnviron(key) == SubscriptOf(<<"os", "environ">>, key)


\* the statements the bounded inputs are drawn from (source text on the right)
Stmts == {
    ImportStmt(<<"requests">>, ""),                          \* import requests
    ImportFromStmt(<<"unittest", "mock">>, "patch", ""),     \* from unittest.mock import patch
    AssignStmt(<<SysModules(<<"k">>)>>),                     \* sys.modules[k] = v
    AssignStmt(<<SysModules(<<"a">>), SysModules(<<"b">>)>>),\* sys.modules[a] = sys.modules[b] = v
    AssignStmt(<<OsEnviron(<<"K">>)>>),                      \* os.environ[K] = v
    AssignStmt(<<AttributeOf(<<"builtins", "open">>)>>),     \* builtins.open = v
    AssignStmt(<<AttributeOf(<<"logging", "getLogger">>)>>), \* logging.getLogger = v
    AssignStmt(<<AttributeOf(<<"requests", "api">>)>>),      \* requests.api = v
    AssignStmt(<<NameOf("patch")>>),                         \* patch = v
    DeleteStmt(<<SysModules(<<"k">>)>>),                     \* del sys.modules[k]
    CallStmt(<<"setattr">>, <<NameOf("requests")>>),         \* setattr(requests, ...)
    CallStmt(<<"patch">>, <<>>),                             \* patch(...)
    CallStmt(<<"os", "environ", "update">>, <<>>),           \* os.environ.update(...)
    CallStmt(<<"obj", "setattr">>, <<>>),                    \* obj.setattr(...)
    FunctionDefStmt("f"),                                    \* def f():
    ClassDefStmt("C"),                                       \* class C:
    DecoratorStmt(<<"patch">>, TRUE)                         \* @patch(...)
}

Lines == [depth : 0..MaxDepth, st : Stmts]
Gaps == {0, ImportWindow - 1, ImportWindow}

RECURSIVE SeqsUpTo(_, _)
SeqsUpTo(S, n) ==
    IF n = 0 THEN {<<>>}
    ELSE LET shorter == SeqsUpTo(S, n - 1)
         IN  shorter \cup {Append(s, x) : s \in {t \in shorter : Len(t) = n - 1}, x \in S}

IsDef(st) == st.kind \in {"FunctionDef", "AsyncFunctionDef", "ClassDef"}

\* ast.parse succeeds: indentation follows the definitions, every definition
\* has a body, every decorator is followed by a definition
ParsableLines(ls) ==
        \A i \in 1..Len(ls) :
            /\ i = 1 => ls[i].depth = 0
            /\ i > 1 => IF IsDef(ls[i - 1].st)
                        THEN ls[i].depth = ls[i - 1].depth + 1
                        ELSE ls[i].depth <= ls[i - 1].depth
            /\ IsDef(ls[i].st) => i < Len(ls)
            /\ ls[i].st.kind = "Decorator" =>
                   /\ i < Len(ls)
                   /\ ls[i + 1].depth = ls[i].depth
                   /\ (IsDef(ls[i + 1].st) \/ ls[i + 1].st.kind = "Decorator")

Parsable(f) == ParsableLines(f.lines)

\* a file: its statement lines, the blank lines before and after the first
\* one, and whether its path has a "tests" component
FilesUpTo(n) ==
    {[lines |-> ls, lead |-> 0, gap |-> g, in_tests |-> t] :
        ls \in SeqsUpTo(Lines, n), g \in Gaps, t \in BOOLEAN}

\* node.lineno of the statement at index i
LineNo(f, i) == f.lead + (IF i <= 1 THEN i ELSE i + f.gap)

\* len(text_lines)
NumTextLines(f) ==
    f.lead + (IF Len(f.lines) <= 1 THEN Len(f.lines) ELSE Len(f.lines) + f.gap)


(***************************************************************************)
(* Source text of a statement, as tokens, and the four fallback patterns   *)
(***************************************************************************)
RECURSIVE RenderDotted(_)
RenderDotted(d) ==
    IF Len(d) = 0 THEN <<>>
    ELSE IF Len(d) = 1 THEN <<d[1]>>
    ELSE <<d[1], ".">> \o RenderDotted(Tail(d))

RenderExpr(e) ==
    CASE e.t = "Subscript" -> RenderDotted(e.value) \o <<"[">> \o e.key \o <<"]">>
      [] e.t = "Attribute" -> RenderDotted(e.dotted)
      [] e.t = "Name" -> <<e.id>>

RECURSIVE RenderTargets(_, _)
RenderTargets(ts, op) ==
    IF Len(ts) = 0 THEN <<>>
    ELSE RenderExpr(ts[1]) \o <<op>> \o RenderTargets(Tail(ts), op)

RECURSIVE RenderArgs(_)
RenderArgs(as) ==
    IF Len(as) = 0 THEN <<>>
    ELSE RenderExpr(as[1]) \o <<",">> \o RenderArgs(Tail(as))

RenderStmt(st) ==
    CASE st.kind = "Import" ->
             <<"import">> \o RenderDotted(st.name)
             \o (IF st.asname = "" THEN <<>> ELSE <<"as", st.asname>>)
      [] st.kind = "ImportFrom" ->
             <<"from">> \o RenderDotted(st.module) \o <<"import", st.name>>
             \o (IF st.asname = "" THEN <<>> ELSE <<"as", st.asname>>)
      [] st.kind = "Assign" -> RenderTargets(st.targets, "=") \o <<"v">>
      [] st.kind = "AugAssign" -> RenderTargets(st.targets, "+=") \o <<"v">>
      [] st.kind = "Delete" -> <<"del">> \o RenderExpr(st.targets[1])
      [] st.kind = "Call" ->
             RenderDotted(st.func) \o <<"(">> \o RenderArgs(st.args) \o <<"v", ")">>
      [] st.kind = "FunctionDef" -> <<"def", st.name, "(", ")", ":">>
      [] st.kind = "AsyncFunctionDef" -> <<"async", "def", st.name, "(", ")", ":">>
      [] st.kind = "ClassDef" -> <<"class", st.name, ":">>
      [] st.kind = "Decorator" ->
             <<"@">> \o RenderDotted(st.dec)
             \o (IF st.call THEN <<"(", "v", ")">> ELSE <<>>)
      [] st.kind = "Pass" -> <<"pass">>

Punctuation == {".", "[", "]", "(", ")", ",", ":", "@", "=", "+=", "=="}
IsIdentifier(tok) == tok \notin Punctuation
\* the token begins with "=" (the pattern's "\s*=\s*" also accepts "==")
StartsWithEq(tok) == tok \in {"=", "=="}

At(toks, i) == IF i >= 1 /\ i <= Len(toks) THEN toks[i] ELSE "<eol>"

\* <base>\.<attr>\[[^\]]+\]\s*=\s*  : the key runs to the first "]"
MatchSubscriptAssign(toks, base, attr) ==
    \E i \in 1..Len(toks) :
        /\ At(toks, i) = base /\ At(toks, i + 1) = "." /\ At(toks, i + 2) = attr
        /\ At(toks, i + 3) = "["
        /\ \E j \in (i + 5)..Len(toks) :
               /\ At(toks, j) = "]"
               /\ \A k \in (i + 4)..(j - 1) : At(toks, k) # "]"
               /\ StartsWithEq(At(toks, j + 1))

\* \bbuiltins\.[A-Za-z_]\w*\s*=\s*
MatchBuiltinsAssign(toks) ==
    \E i \in 1..Len(toks) :
        /\ At(toks, i) = "builtins" /\ At(toks, i + 1) = "."
        /\ IsIdentifier(At(toks, i + 2)) /\ At(toks, i + 2) # "<eol>"
        /\ StartsWithEq(At(toks, i + 3))

\* \bsetattr\s*\(
MatchSetattrCall(toks) ==
    \E i \in 1..Len(toks) : At(toks, i) = "setattr" /\ At(toks, i + 1) = "("

\* the category of the first of the four patterns that matches, or NoneVal
RegexCategory(toks) ==
    IF MatchSubscriptAssign(toks, "sys", "modules") THEN CATEGORY_SYS_MODULES
    ELSE IF MatchBuiltinsAssign(toks) THEN CATEGORY_BUILTINS
    ELSE IF MatchSubscriptAssign(toks, "os", "environ") THEN CATEGORY_GLOBAL_ENV
    ELSE IF MatchSetattrCall(toks) THEN CATEGORY_SETATTR
    ELSE NoneVal

\* text_lines[n - 1] as tokens: a blank line has none
TextLine(f, n) ==
    LET k == n - f.lead
    IN  IF k = 1 THEN RenderStmt(f.lines[1].st)
        ELSE IF k > 1 + f.gap /\ k - f.gap <= Len(f.lines) THEN RenderStmt(f.lines[k - f.gap].st)
        ELSE <<>>

\* regex_fallback(lines): (lineno, category) pairs in line order
RECURSIVE FallbackFrom(_, _)
FallbackFrom(f, n) ==
    IF n > NumTextLines(f) THEN <<>>
    ELSE LET cat == RegexCategory(TextLine(f, n))
         IN  (IF cat = NoneVal THEN <<>> ELSE <<<<n, cat>>>>) \o FallbackFrom(f, n + 1)

regex_fallback(f) == FallbackFrom(f, 1)


(***************************************************************************)
(* ImportResolver                                                          *)
(***************************************************************************)
EmptyResolver ==
    [alias_to_module |-> <<>>, alias_is_from_object |-> <<>>, import_lines |-> {}]

\* ImportResolver.visit_Import
visit_Import(r, st, lineno) ==
    LET asname == IF st.asname # "" THEN st.asname ELSE Last(st.name)
    IN  [r EXCEPT !.import_lines = @ \cup {lineno},
                  !.alias_to_module = (asname :> st.name) @@ @]

\* ImportResolver.visit_ImportFrom
visit_ImportFrom(r, st, lineno) ==
    LET asname == IF st.asname # "" THEN st.asname ELSE st.name
        full == IF Len(st.module) > 0 THEN Append(st.module, st.name) ELSE <<st.name>>
    IN  [r EXCEPT !.import_lines = @ \cup {lineno},
                  !.alias_to_module = (asname :> full) @@ @,
                  !.alias_is_from_object = (asname :> <<st.module, st.name>>) @@ @]

\* resolver.visit(tree): every import statement of the file, at any depth
RECURSIVE ResolveFrom(_, _, _)
ResolveFrom(f, i, r) ==
    IF i > Len(f.lines) THEN r
    ELSE LET st == f.lines[i].st
             r2 == IF st.kind = "Import" THEN visit_Import(r, st, LineNo(f, i))
                   ELSE IF st.kind = "ImportFrom" THEN visit_ImportFrom(r, st, LineNo(f, i))
                   ELSE r
         IN  ResolveFrom(f, i + 1, r2)

Resolve(f) == ResolveFrom(f, 1, EmptyResolver)

(***************************************************************************)
(* ScopeTracker                                                            *)
(***************************************************************************)
RECURSIVE InnermostOf(_, _)
InnermostOf(stk, kind) ==
    IF Len(stk) = 0 THEN NoneVal
    ELSE IF Last(stk)[1] = kind THEN Last(stk)[2]
    ELSE InnermostOf(Front(stk), kind)

\* a tracker whose module-scope flag is set inside definitions instead
current_inverted(stk) ==
    [is_module_scope |-> Len(stk) # 0,
     fn |-> InnermostOf(stk, "function"),
     cl |-> InnermostOf(stk, "class")]

\* ScopeTracker.current(): (is_module_scope, function, class_name)
current(stk) ==
    [is_module_scope |-> Len(stk) = 0,
     fn |-> InnermostOf(stk, "function"),
     cl |-> InnermostOf(stk, "class")]

ScopeKind(st) == IF st.kind = "ClassDef" THEN "class" ELSE "function"

(***************************************************************************)
(* Helpers of the scanner                                                  *)
(***************************************************************************)
base_module_name(mod) == IF Len(mod) = 0 THEN NoneVal ELSE mod[1]

\* (external, base)
is_alias_external(alias, r, project_pkgs) ==
    IF alias \notin DOMAIN r.alias_to_module
    THEN [external |-> FALSE, base |-> NoneVal]
    ELSE LET base == base_module_name(r.alias_to_module[alias])
         IN  [external |-> base # NoneVal /\ base \notin project_pkgs, base |-> base]

classify_intent(category, import_base, is_test) ==
    IF category = CATEGORY_SYS_MODULES THEN INTENT_MODULE_INJECTION
    ELSE IF category = CATEGORY_BUILTINS THEN INTENT_GLOBAL_RUNTIME_CHANGE
    ELSE IF category = CATEGORY_IMPORT_TIME THEN INTENT_IMPORT_TIME_OVERRIDE
    ELSE IF category = CATEGORY_TEST_PATCH_MISUSE /\ is_test THEN INTENT_NON_SCOPED_TEST_PATCH
    ELSE IF import_base # NoneVal
            /\ category \in {CATEGORY_ATTRIBUTE_REASSIGNMENT, CATEGORY_SETATTR,
                             CATEGORY_SINGLETON_REBIND}
         THEN INTENT_OVERRIDE_THIRD_PARTY
    ELSE INTENT_UNSPECIFIED

_is_sys_modules(sub) == sub.value = <<"sys", "modules">>
_is_os_environ(sub) == sub.value = <<"os", "environ">>

Abs(n) == IF n < 0 THEN 0 - n ELSE n

_near_import(lineno, import_lines) ==
    \E li \in import_lines : Abs(lineno - li) <= ImportWindow

_is_patch_name(name, r) ==
    IF name \notin DOMAIN r.alias_to_module THEN name = "patch"
    ELSE LET mapped == r.alias_to_module[name]
         IN  (Len(mapped) > 1 /\ Last(mapped) = "patch")
             \/ mapped = <<"unittest", "mock", "patch">>

\* node.func as a dotted name: a Name has one part, an Attribute more
_is_patch_call(func, r) ==
    IF Len(func) = 1 THEN _is_patch_name(func[1], r)
    ELSE Len(func) > 1 /\ Last(func) = "patch"

_is_patch_decorator(st, r) ==
    IF st.call THEN _is_patch_call(st.dec, r)
    ELSE IF Len(st.dec) = 1 THEN _is_patch_name(st.dec[1], r)
    ELSE Len(st.dec) > 1 /\ Last(st.dec) = "patch"

ProjectPkgs == {"tests"}

\* get_context: lines[i - 1 : j] with i = max(1, lineno - n) and
\* j = min(len(lines), lineno + n), as the numbers of the source lines it holds
get_context(f, lineno, n) ==
    LET i == IF lineno - n > 1 THEN lineno - n ELSE 1
        j == IF lineno + n < NumTextLines(f) THEN lineno + n ELSE NumTextLines(f)
    IN  [k \in 1..(j - i + 1) |-> i + k - 1]

\* MonkeyPatchScanner._add_finding: the context is taken with DEFAULT_CONTEXT_LINES
Finding(fileId, f, lineno, category, import_base, is_module_scope, fn, cl) ==
    [file |-> fileId,
     line |-> lineno,
     category |-> category,
     intent |-> classify_intent(category, import_base, f.in_tests),
     import_base |-> import_base,
     is_test |-> f.in_tests,
     is_module_scope |-> is_module_scope,
     function |-> fn,
     class_name |-> cl,
     context |-> get_context(f, lineno, DEFAULT_CONTEXT_LINES)]


(***************************************************************************)
(* MonkeyPatchScanner: the findings each visit_* handler appends           *)
(***************************************************************************)
\* one target of _handle_assignment's loop
TargetFindings(t, fileId, f, lineno, stk, r) ==
    LET sc == current(stk)
        mk(cat, base) ==
            Finding(fileId, f, lineno, cat, base, sc.is_module_scope, sc.fn, sc.cl)
    IN  IF t.t = "Subscript" /\ _is_sys_modules(t)
            THEN <<mk(CATEGORY_SYS_MODULES, "sys")>>
        ELSE IF t.t = "Attribute" /\ Len(t.dotted) = 2 /\ t.dotted[1] = "builtins"
            THEN <<mk(CATEGORY_BUILTINS, "builtins")>>
        ELSE IF t.t = "Subscript" /\ _is_os_environ(t)
            THEN <<mk(CATEGORY_GLOBAL_ENV, "os")>>
        ELSE IF t.t = "Attribute" /\ t.dotted[1] \in KNOWN_SINGLETON_BASES
            THEN <<mk(CATEGORY_SINGLETON_REBIND, t.dotted[1])>>
        ELSE IF t.t = "Attribute"
            THEN LET ext == is_alias_external(t.dotted[1], r, ProjectPkgs)
                 IN  IF ext.base = NoneVal THEN <<>>
                     ELSE <<mk(CATEGORY_ATTRIBUTE_REASSIGNMENT, ext.base)>>
                          \o (IF sc.is_module_scope /\ _near_import(lineno, r.import_lines)
                              THEN <<mk(CATEGORY_IMPORT_TIME, ext.base)>>
                              ELSE <<>>)
        ELSE IF t.t = "Name" /\ t.id \in DOMAIN r.alias_to_module
            THEN LET base == base_module_name(r.alias_to_module[t.id])
                 IN  IF base = NoneVal THEN <<>>
                     ELSE <<mk(CATEGORY_ATTRIBUTE_REASSIGNMENT, base)>>
        ELSE <<>>

RECURSIVE _handle_assignment(_, _, _, _, _, _)
_handle_assignment(targets, fileId, f, lineno, stk, r) ==
    IF Len(targets) = 0 THEN <<>>
    ELSE TargetFindings(targets[1], fileId, f, lineno, stk, r)
         \o _handle_assignment(Tail(targets), fileId, f, lineno, stk, r)

\* MonkeyPatchScanner.visit_Delete
DeleteTargetFindings(t, fileId, f, lineno, stk) ==
    LET sc == current(stk)
    IN  IF t.t = "Subscript" /\ _is_sys_modules(t)
        THEN <<Finding(fileId, f, lineno, CATEGORY_SYS_MODULES, "sys",
                       sc.is_module_scope, sc.fn, sc.cl)>>
        ELSE <<>>

RECURSIVE visit_Delete(_, _, _, _, _)
visit_Delete(targets, fileId, f, lineno, stk) ==
    IF Len(targets) = 0 THEN <<>>
    ELSE DeleteTargetFindings(targets[1], fileId, f, lineno, stk)
         \o visit_Delete(Tail(targets), fileId, f, lineno, stk)

\* MonkeyPatchScanner.visit_Call
visit_Call(st, fileId, f, lineno, stk, r) ==
    LET sc == current(stk)
        mk(cat, base) ==
            Finding(fileId, f, lineno, cat, base, sc.is_module_scope, sc.fn, sc.cl)
        base_alias ==
            IF Len(st.args) = 0 THEN NoneVal
            ELSE IF st.args[1].t = "Name" THEN st.args[1].id
            ELSE IF st.args[1].t = "Attribute" /\ Len(st.args[1].dotted) = 2
                 THEN st.args[1].dotted[1]
            ELSE NoneVal
        setattrBase ==
            IF base_alias = NoneVal THEN NoneVal
            ELSE is_alias_external(base_alias, r, ProjectPkgs).base
    IN  (IF st.func = <<"setattr">> /\ Len(st.args) > 0
         THEN <<mk(CATEGORY_SETATTR, setattrBase)>> ELSE <<>>)
        \o (IF st.func = <<"builtins", "setattr">>
            THEN <<mk(CATEGORY_SETATTR, "builtins")>> ELSE <<>>)
        \o (IF sc.is_module_scope /\ _is_patch_call(st.func, r)
            THEN <<mk(CATEGORY_TEST_PATCH_MISUSE, "unittest")>> ELSE <<>>)
        \o (IF Len(st.func) = 3 /\ st.func[1] = "os" /\ st.func[2] = "environ"
               /\ st.func[3] \in {"update", "setdefault"}
            THEN <<mk(CATEGORY_GLOBAL_ENV, "os")>> ELSE <<>>)

\* index of the def/class line that the decorator lines from i on belong to
RECURSIVE DefLineOf(_, _)
DefLineOf(f, i) ==
    IF f.lines[i].st.kind = "Decorator" THEN DefLineOf(f, i + 1) ELSE i

\* a decorator loop that reports at the line of the def instead
RECURSIVE DecoratorFindingsAtDef(_, _, _, _, _)
DecoratorFindingsAtDef(fileId, f, i, k, r) ==
    IF i >= k THEN <<>>
    ELSE LET def == f.lines[k].st
             hit == _is_patch_decorator(f.lines[i].st, r)
             one == Finding(fileId, f, LineNo(f, k), CATEGORY_TEST_PATCH_MISUSE, "unittest",
                            TRUE,
                            IF def.kind = "FunctionDef" THEN def.name ELSE NoneVal,
                            IF def.kind = "ClassDef" THEN def.name ELSE NoneVal)
         IN  (IF hit THEN <<one>> ELSE <<>>) \o DecoratorFindingsAtDef(fileId, f, i + 1, k, r)

\* the decorator loop of visit_FunctionDef / visit_ClassDef, lines i..k-1
RECURSIVE DecoratorFindings(_, _, _, _, _)
DecoratorFindings(fileId, f, i, k, r) ==
    IF i >= k THEN <<>>
    ELSE LET def == f.lines[k].st
             hit == _is_patch_decorator(f.lines[i].st, r)
             one == Finding(fileId, f, LineNo(f, i), CATEGORY_TEST_PATCH_MISUSE, "unittest",
                            TRUE,
                            IF def.kind = "FunctionDef" THEN def.name ELSE NoneVal,
                            IF def.kind = "ClassDef" THEN def.name ELSE NoneVal)
         IN  (IF hit THEN <<one>> ELSE <<>>) \o DecoratorFindings(fileId, f, i + 1, k, r)


(***************************************************************************)
(* scan_file: regex fallback merged into the tree findings                 *)
(***************************************************************************)
\* a seen set that holds no key
NoSeenKeys(found) == {}

SeenKeys(found) == {<<found[i].line, found[i].category>> : i \in 1..Len(found)}

RECURSIVE FallbackAdditions(_, _, _, _)
FallbackAdditions(fileId, f, hits, seen) ==
    IF Len(hits) = 0 THEN <<>>
    ELSE LET h == hits[1]
             one == [Finding(fileId, f, h[1], h[2], NoneVal, TRUE, NoneVal, NoneVal)
                        EXCEPT !.context = get_context(f, h[1], context_lines)]
         IN  (IF h \in seen THEN <<>> ELSE <<one>>)
             \o FallbackAdditions(fileId, f, Tail(hits), seen)

(***************************************************************************)
(* monkey_patch_classify: classify and aggregate                           *)
(***************************************************************************)
classify_lenient(f) ==
    IF f.category \in {"sys_modules_assignment", "import_time_side_effect"} /\ ~f.is_test
        THEN "HIGH"
    ELSE IF f.category = "global_env_mutation" /\ ~f.is_test
        THEN "HIGH"
    ELSE IF f.category = "attribute_reassignment_on_import" /\ ~f.is_test
        THEN "MODERATE"
    ELSE IF f.category = "global_env_mutation" /\ f.is_test
        THEN "MODERATE"
    ELSE "SAFE"

classify(f) ==
    IF f.category \in {"sys_modules_assignment", "import_time_side_effect"} /\ ~f.is_test
        THEN "HIGH"
    ELSE IF f.category = "global_env_mutation" /\ ~f.is_test /\ f.is_module_scope
        THEN "HIGH"
    ELSE IF f.category = "attribute_reassignment_on_import" /\ ~f.is_test
        THEN "MODERATE"
    ELSE IF f.category = "global_env_mutation" /\ f.is_test
        THEN "MODERATE"
    ELSE "SAFE"

RiskLevels == {"HIGH", "MODERATE", "SAFE"}
EmptyBuckets == [l \in {} |-> <<>>]

\* the categories a report.json entry can carry: the scanner's eight, the
\* declared-but-unused "other", and Finding.from_obj's default "unknown"
ReportCategories ==
    {CATEGORY_ATTRIBUTE_REASSIGNMENT, CATEGORY_SETATTR, CATEGORY_SYS_MODULES,
     CATEGORY_BUILTINS, CATEGORY_IMPORT_TIME, CATEGORY_TEST_PATCH_MISUSE,
     CATEGORY_GLOBAL_ENV, CATEGORY_SINGLETON_REBIND, "other", "unknown"}

ReportFindings ==
    [category : ReportCategories, is_test : BOOLEAN, is_module_scope : BOOLEAN]

ClsIdle ==
    /\ cl_findings = <<>>
    /\ cl_i = 0
    /\ buckets = EmptyBuckets

ClsInit ==
    /\ cl_findings \in SeqsUpTo(ReportFindings, MaxReport)
    /\ cl_i = 0
    /\ buckets = EmptyBuckets

\* aggregate: one iteration of "for f in findings: buckets[classify(f)].append(f)"
AggregateStep ==
    /\ cl_i < Len(cl_findings)
    /\ LET f == cl_findings[cl_i + 1]
           level == classify(f)
           old == IF level \in DOMAIN buckets THEN buckets[level] ELSE <<>>
       IN  buckets' = (level :> Append(old, f)) @@ buckets
    /\ cl_i' = cl_i + 1
    /\ UNCHANGED <<notClsVars, cl_findings>>

(***************************************************************************)
(* health_suite_orchestrator: main and run_step                            *)
(***************************************************************************)
\* the scripts of the first steps of make_steps, in list order
StepScripts ==
    <<"batch_clean", "pytest_logs", "scan_monkey_patches",
      "dump_faulthandler_once", "generate_fault_artifacts">>

\* the steps that are given env=fault_env
FaultScripts == {"dump_faulthandler_once", "generate_fault_artifacts"}

StepName(script) ==
    IF script = "dump_faulthandler_once" THEN "fault_dump_once"
    ELSE IF script = "generate_fault_artifacts" THEN "fault_artifacts"
    ELSE script

\* an environment, or a dict of overrides: a value or Unset for each name
EnvNames == {"FAULT_ENABLE", "FAULT_OUTDIR", "FAULT_DUMP_LATER"}
Unset == "<unset>"
NoOverrides == [n \in EnvNames |-> Unset]

\* make_steps: fault_env
fault_env ==
    [FAULT_ENABLE |-> "1",
     FAULT_OUTDIR |-> "faulthandler/ts",
     FAULT_DUMP_LATER |-> IF os_environ["FAULT_DUMP_LATER"] = Unset THEN "0"
                          ELSE os_environ["FAULT_DUMP_LATER"]]

\* {**os.environ, **(env or {})}
ChildEnv(env) == [n \in EnvNames |-> IF env[n] # Unset THEN env[n] ELSE os_environ[n]]

\* the env argument of run_step: main passes none, so it is the default None
RunStepEnv == NoOverrides

\* a step of make_steps, as far as run_step reads it: its name, the optional
\* flag, and whether its argv holds "-c" and the word "missing". Only the
\* stand-in of batch_clean prints 'missing ...'; the others are
\* [py, "-c", "import sys; sys.exit(1)"].
StepOf(script, found) ==
    IF script = "batch_clean"
    THEN IF found
         THEN [name |-> "batch_clean", optional |-> FALSE, dash_c |-> FALSE,
               says_missing |-> FALSE, env |-> NoOverrides]
         ELSE [name |-> "batch_clean(MISSING)", optional |-> TRUE, dash_c |-> TRUE,
               says_missing |-> TRUE, env |-> NoOverrides]
    ELSE [name |-> StepName(script), optional |-> ~found, dash_c |-> ~found,
          says_missing |-> FALSE,
          env |-> IF script \in FaultScripts THEN fault_env ELSE NoOverrides]

NumSteps == IF MaxSteps < Len(StepScripts) THEN MaxSteps ELSE Len(StepScripts)

\* make_steps, given the set of scripts find_script finds
make_steps(found) ==
    [i \in 1..Len(StepScripts) |-> StepOf(StepScripts[i], StepScripts[i] \in found)]

\* the runs that are explored hold NumSteps of these steps, in list order
StepSamples ==
    {sel \in [1..NumSteps -> 1..Len(StepScripts)] :
        \A i \in 1..NumSteps : \A j \in 1..NumSteps : i < j => sel[i] < sel[j]}

\* a value that may be missing (Python's None, a key not set, a file not yet
\* written): the empty tuple, or the value in a tuple of one
Absent == <<>>
Present(x) == <<x>>

\* run_step's early return
IsSkipped(step) == step.optional /\ step.dash_c /\ step.says_missing

StatusRecord(step, skipped, status, exit_code) ==
    [name |-> step.name, skipped |-> skipped, status |-> status, exit_code |-> exit_code]

\* the status run_step derives from proc.returncode
StatusOfCode(code) == IF code = 0 THEN "OK" ELSE "ERROR"

CurStep == steps[step_i + 1]
InRunStep == orch_pc \in {"reading", "waiting"}

OrchIdle ==
    /\ os_environ = NoOverrides
    /\ proc_env = NoOverrides
    /\ steps = <<>>
    /\ live = FALSE
    /\ step_timeout_sec = 0
    /\ heartbeat_sec = 0
    /\ step_i = 0
    /\ orch_pc = "idle"
    /\ run_steps = <<>>
    /\ status_json = Absent
    /\ orch_rc = Absent
    /\ proc = "none"
    /\ returncode = 0
    /\ stubborn = FALSE
    /\ sigterm_sent = FALSE
    /\ sigkill_sent = FALSE
    /\ hb_thread = "none"
    /\ hb_deadline = 0
    /\ elapsed = 0

OrchInit ==
    /\ os_environ \in {NoOverrides, [NoOverrides EXCEPT !["FAULT_DUMP_LATER"] = "5"]}
    /\ proc_env = NoOverrides
    /\ \E found \in SUBSET {StepScripts[i] : i \in 1..Len(StepScripts)}, sel \in StepSamples :
           steps = [i \in 1..NumSteps |-> make_steps(found)[sel[i]]]
    /\ live \in BOOLEAN
    /\ step_timeout_sec \in {0, TimeoutSec}
    /\ heartbeat_sec \in {0, HeartbeatSec}
    /\ step_i = 0
    /\ orch_pc = "next"
    /\ run_steps = <<>>
    /\ status_json = Absent
    /\ orch_rc = Absent
    /\ proc = "none"
    /\ returncode = 0
    /\ stubborn = FALSE
    /\ sigterm_sent = FALSE
    /\ sigkill_sent = FALSE
    /\ hb_thread = "none"
    /\ hb_deadline = 0
    /\ elapsed = 0

\* what main does with the dict run_step returned, and the reset of the
\* per-step state for the next call
FinishStep(record) ==
    /\ run_steps' = Append(run_steps, record)
    /\ step_i' = step_i + 1
    /\ orch_pc' = "next"
    /\ proc' = "none"
    /\ returncode' = 0
    /\ stubborn' = FALSE
    /\ sigterm_sent' = FALSE
    /\ sigkill_sent' = FALSE
    /\ hb_thread' = "none"
    /\ hb_deadline' = 0
    /\ elapsed' = 0
    /\ UNCHANGED <<os_environ, proc_env, steps, live, step_timeout_sec, heartbeat_sec, status_json, orch_rc>>

\* run_step: the step is optional and its argv says "missing"
SkipStep ==
    /\ orch_pc = "next"
    /\ step_i < Len(steps)
    /\ IsSkipped(CurStep)
    /\ FinishStep(StatusRecord(CurStep, TRUE, NoneVal, Absent))
    /\ UNCHANGED notOrchVars

\* a launch failure that is not caught: main ends without the step's record
LaunchFailAbort ==
    /\ orch_pc = "next"
    /\ step_i < Len(steps)
    /\ ~IsSkipped(CurStep)
    /\ orch_pc' = "done"
    /\ orch_rc' = Present(1)
    /\ UNCHANGED <<os_environ, proc_env, steps, live, step_timeout_sec, heartbeat_sec, step_i, run_steps,
                   status_json, proc, returncode, stubborn, sigterm_sent, sigkill_sent,
                   hb_thread, hb_deadline, elapsed>>
    /\ UNCHANGED notOrchVars

\* run_step: Popen / subprocess.run raises; the except branch records it
LaunchFail ==
    /\ orch_pc = "next"
    /\ step_i < Len(steps)
    /\ ~IsSkipped(CurStep)
    /\ FinishStep(StatusRecord(CurStep, FALSE, "EXCEPTION", Absent))
    /\ UNCHANGED notOrchVars

\* run_step, live: Popen succeeds, the heartbeat thread is started when a
\* heartbeat interval is set, and the main thread reads proc.stdout
LaunchLive ==
    /\ orch_pc = "next"
    /\ step_i < Len(steps)
    /\ ~IsSkipped(CurStep)
    /\ live
    /\ proc' = "running"
    /\ proc_env' = ChildEnv(RunStepEnv)
    /\ stubborn' \in BOOLEAN
    /\ elapsed' = 0
    /\ hb_thread' = IF heartbeat_sec > 0 THEN "sleeping" ELSE "none"
    /\ hb_deadline' = heartbeat_sec
    /\ orch_pc' = "reading"
    /\ UNCHANGED <<os_environ, steps, live, step_timeout_sec, heartbeat_sec, step_i, run_steps,
                   status_json, orch_rc, returncode, sigterm_sent, sigkill_sent>>
    /\ UNCHANGED notOrchVars

\* run_step, captured: subprocess.run(..., timeout=timeout_sec) starts the child
LaunchCaptured ==
    /\ orch_pc = "next"
    /\ step_i < Len(steps)
    /\ ~IsSkipped(CurStep)
    /\ ~live
    /\ proc' = "running"
    /\ proc_env' = ChildEnv(RunStepEnv)
    /\ stubborn' \in BOOLEAN
    /\ elapsed' = 0
    /\ orch_pc' = "waiting"
    /\ UNCHANGED <<os_environ, steps, live, step_timeout_sec, heartbeat_sec, step_i, run_steps,
                   status_json, orch_rc, returncode, sigterm_sent, sigkill_sent,
                   hb_thread, hb_deadline>>
    /\ UNCHANGED notOrchVars

\* some wait of run_step has reached its deadline and must return first
DeadlineDue ==
    \/ hb_thread \in {"sleeping", "grace"} /\ elapsed >= hb_deadline
    \/ orch_pc = "waiting" /\ step_timeout_sec > 0 /\ elapsed >= step_timeout_sec

\* time passes while the step's process runs
Tick ==
    /\ InRunStep
    /\ proc = "running"
    /\ ~DeadlineDue
    /\ elapsed < MaxClock
    /\ elapsed' = elapsed + 1
    /\ UNCHANGED <<os_environ, proc_env, steps, live, step_timeout_sec, heartbeat_sec, step_i, orch_pc, run_steps,
                   status_json, orch_rc, proc, returncode, stubborn, sigterm_sent,
                   sigkill_sent, hb_thread, hb_deadline>>
    /\ UNCHANGED notOrchVars

\* the subprocess ends on its own, with exit code 0 or 1; the stand-in of a
\* missing script is sys.exit(1)
ProcExit ==
    /\ proc = "running"
    /\ proc' = "exited"
    /\ returncode' \in IF CurStep.dash_c THEN {1} ELSE {0, 1}
    /\ UNCHANGED <<os_environ, proc_env, steps, live, step_timeout_sec, heartbeat_sec, step_i, orch_pc, run_steps,
                   status_json, orch_rc, stubborn, sigterm_sent, sigkill_sent,
                   hb_thread, hb_deadline, elapsed>>
    /\ UNCHANGED notOrchVars

\* the subprocess dies of a signal it was sent (SIGTERM unless it ignores it)
ProcSignalled ==
    /\ proc = "running"
    /\ sigkill_sent \/ (sigterm_sent /\ ~stubborn)
    /\ proc' = "exited"
    /\ returncode' = IF sigkill_sent THEN 0 - 9 ELSE 0 - 15
    /\ UNCHANGED <<os_environ, proc_env, steps, live, step_timeout_sec, heartbeat_sec, step_i, orch_pc, run_steps,
                   status_json, orch_rc, stubborn, sigterm_sent, sigkill_sent,
                   hb_thread, hb_deadline, elapsed>>
    /\ UNCHANGED notOrchVars

\* _heartbeat: stop_evt.wait(heartbeat_sec) timed out; the loop body
HeartbeatWake ==
    /\ orch_pc = "reading"
    /\ hb_thread = "sleeping"
    /\ elapsed >= hb_deadline
    /\ IF proc # "running"
       THEN /\ hb_thread' = "ended"
            /\ UNCHANGED <<sigterm_sent, hb_deadline>>
       ELSE IF step_timeout_sec > 0 /\ elapsed > step_timeout_sec
       THEN /\ sigterm_sent' = TRUE
            /\ hb_thread' = "grace"
            /\ hb_deadline' = elapsed + GraceSec
       ELSE /\ hb_deadline' = elapsed + heartbeat_sec
            /\ UNCHANGED <<sigterm_sent, hb_thread>>
    /\ UNCHANGED <<os_environ, proc_env, steps, live, step_timeout_sec, heartbeat_sec, step_i, orch_pc, run_steps,
                   status_json, orch_rc, proc, returncode, stubborn, sigkill_sent, elapsed>>
    /\ UNCHANGED notOrchVars

\* _heartbeat: proc.wait(timeout=5) after terminate(): the process has exited,
\* or the wait timed out and the thread kills it
HeartbeatGraceOver ==
    /\ orch_pc = "reading"
    /\ hb_thread = "grace"
    /\ proc = "exited" \/ elapsed >= hb_deadline
    /\ sigkill_sent' = IF proc = "exited" THEN sigkill_sent ELSE TRUE
    /\ hb_thread' = "ended"
    /\ UNCHANGED <<os_environ, proc_env, steps, live, step_timeout_sec, heartbeat_sec, step_i, orch_pc, run_steps,
                   status_json, orch_rc, proc, returncode, stubborn, sigterm_sent,
                   hb_deadline, elapsed>>
    /\ UNCHANGED notOrchVars

\* run_step, live: proc.stdout reached end of file; stop_evt.set(), join,
\* proc.wait(), and the status is derived from proc.returncode
RecordLive ==
    /\ orch_pc = "reading"
    /\ proc = "exited"
    /\ FinishStep(StatusRecord(CurStep, FALSE, StatusOfCode(returncode), Present(returncode)))
    /\ UNCHANGED notOrchVars

\* run_step, captured: subprocess.run returned
RecordCaptured ==
    /\ orch_pc = "waiting"
    /\ proc = "exited"
    /\ FinishStep(StatusRecord(CurStep, FALSE, StatusOfCode(returncode), Present(returncode)))
    /\ UNCHANGED notOrchVars

\* run_step, captured: subprocess.run's timeout expired; subprocess.run calls
\* process.kill() (SIGKILL) and waits for the child before it raises
CapturedTimeout ==
    /\ orch_pc = "waiting"
    /\ proc = "running"
    /\ step_timeout_sec > 0
    /\ elapsed >= step_timeout_sec
    /\ sigkill_sent' = TRUE
    /\ orch_pc' = "killing"
    /\ UNCHANGED <<os_environ, proc_env, steps, live, step_timeout_sec, heartbeat_sec, step_i, run_steps,
                   status_json, orch_rc, proc, returncode, stubborn, sigterm_sent,
                   hb_thread, hb_deadline, elapsed>>
    /\ UNCHANGED notOrchVars

\* run_step, captured: the killed child is reaped, TimeoutExpired is caught and
\* the shim reports exit code 124
RecordTimeout ==
    /\ orch_pc = "killing"
    /\ proc = "exited"
    /\ FinishStep(StatusRecord(CurStep, FALSE, StatusOfCode(TimeoutExitCode), Present(TimeoutExitCode)))
    /\ UNCHANGED notOrchVars

\* main: write_status and return 0
FinishRun ==
    /\ orch_pc = "next"
    /\ step_i = Len(steps)
    /\ status_json' = Present(run_steps)
    /\ orch_rc' = Present(0)
    /\ orch_pc' = "done"
    /\ UNCHANGED <<os_environ, proc_env, steps, live, step_timeout_sec, heartbeat_sec, step_i, run_steps,
                   proc, returncode, stubborn, sigterm_sent, sigkill_sent,
                   hb_thread, hb_deadline, elapsed>>
    /\ UNCHANGED notOrchVars

OrchNext ==
    \/ SkipStep \/ LaunchFail \/ LaunchLive \/ LaunchCaptured
    \/ Tick \/ ProcExit \/ ProcSignalled
    \/ HeartbeatWake \/ HeartbeatGraceOver
    \/ RecordLive \/ RecordCaptured \/ CapturedTimeout \/ RecordTimeout
    \/ FinishRun

(***************************************************************************)
(* validate_inventory: main, validate_file, validate_record                *)
(***************************************************************************)
\* the enum registry (enums.yaml of the validator's tests)
Registry ==
    [asset_kind |-> {"script"},
     maturity |-> {"legacy"},
     status |-> {"needs_review"},
     roles |-> {"validator"},
     consumers |-> {"coding_agent"}]

ScalarEnums == <<"asset_kind", "maturity", "status">>
ListEnums == <<"roles", "consumers">>
EnumNames == {"asset_kind", "maturity", "status", "roles", "consumers"}

\* an inventory record with every required field, whose fields named in bad
\* hold a value the registry does not list; path_exists: _check_paths finds
\* the referenced path
InventoryRecord(id, bad, path_exists) ==
    [id |-> id,
     asset_kind |-> IF "asset_kind" \in bad THEN "not_real" ELSE "script",
     maturity |-> IF "maturity" \in bad THEN "not_real" ELSE "legacy",
     status |-> IF "status" \in bad THEN "not_real" ELSE "needs_review",
     roles |-> IF "roles" \in bad THEN <<"not_real">> ELSE <<"validator">>,
     consumers |-> IF "consumers" \in bad THEN <<"coding_agent", "not_real">>
                   ELSE <<"coding_agent">>,
     path_exists |-> path_exists]

InventoryRecords ==
    {InventoryRecord(id, bad, pe) :
        id \in {"scripts.a", "scripts.b"},
        bad \in {{}} \cup {{e} : e \in EnumNames},
        pe \in BOOLEAN}

ValidationIssue(file, message, record_id, enum) ==
    [level |-> "error", file |-> file, message |-> message,
     record_id |-> record_id, enum |-> enum]

\* EnumRegistry.ensure: one error per value that is not allowed
RECURSIVE ensure(_, _, _, _)
ensure(enum_name, values, file, record_id) ==
    IF Len(values) = 0 THEN <<>>
    ELSE (IF values[1] \in Registry[enum_name] THEN <<>>
          ELSE <<ValidationIssue(file, "Value is not allowed for enum", record_id, enum_name)>>)
         \o ensure(enum_name, Tail(values), file, record_id)

_check_enums(record, file) ==
    ensure("asset_kind", <<record.asset_kind>>, file, record.id)
    \o ensure("maturity", <<record.maturity>>, file, record.id)
    \o ensure("status", <<record.status>>, file, record.id)
    \o ensure("roles", record.roles, file, record.id)
    \o ensure("consumers", record.consumers, file, record.id)

_check_paths(record, file) ==
    IF record.path_exists THEN <<>>
    ELSE <<ValidationIssue(file, "Referenced path does not exist", record.id, NoneVal)>>

\* validate_record: the required and list fields of these records are in
\* order and they have no dependencies, so two checks can add issues
validate_record(record, file) == _check_enums(record, file) \o _check_paths(record, file)

ValIdle ==
    /\ inv_files = <<>>
    /\ v_fi = 0
    /\ v_ri = 0
    /\ v_pc = "idle"
    /\ v_issues = <<>>
    /\ seen_ids = <<>>
    /\ v_rc = NoRc

NumRecords(fs) == IF Len(fs) = 0 THEN 0 ELSE Len(fs[1]) + (IF Len(fs) = 1 THEN 0 ELSE Len(fs[2]))

\* up to two inventory files holding up to MaxRecords records together
ValInit ==
    /\ inv_files \in
           {<<>>}
           \cup {<<f>> : f \in SeqsUpTo(InventoryRecords, MaxRecords)}
           \cup {<<f, g>> : f \in SeqsUpTo(InventoryRecords, 1),
                           g \in SeqsUpTo(InventoryRecords, MaxRecords - 1)}
    /\ v_fi = 0
    /\ v_ri = 0
    /\ v_pc = "files"
    /\ v_issues = <<>>
    /\ seen_ids = <<>>
    /\ v_rc = NoRc

InvFile == inv_files[v_fi + 1]

\* main: validate_file is called for the next file; load_yaml returns a list
LoadFile ==
    /\ v_pc = "files"
    /\ v_fi < Len(inv_files)
    /\ v_ri' = 0
    /\ v_pc' = "records"
    /\ UNCHANGED <<notValVars, inv_files, v_fi, v_issues, seen_ids, v_rc>>

\* validate_file: one iteration of "for record in data", the id bookkeeping
LoopRecord ==
    /\ v_pc = "records"
    /\ v_ri < Len(InvFile)
    /\ LET record_id == InvFile[v_ri + 1].id
       IN  IF record_id \in DOMAIN seen_ids
           THEN /\ v_issues' = Append(v_issues, ValidationIssue(v_fi + 1,
                                          "Duplicate id detected", record_id, NoneVal))
                /\ UNCHANGED seen_ids
           ELSE /\ seen_ids' = (record_id :> (v_fi + 1)) @@ seen_ids
                /\ UNCHANGED v_issues
    /\ v_ri' = v_ri + 1
    /\ UNCHANGED <<notValVars, inv_files, v_fi, v_pc, v_rc>>

\* validate_file: the statement after the loop, validate_record(record, ...),
\* where record is what the loop variable was last bound to
ValidateLast ==
    /\ v_pc = "records"
    /\ v_ri = Len(InvFile)
    /\ Len(InvFile) > 0
    /\ v_issues' = v_issues \o validate_record(InvFile[Len(InvFile)], v_fi + 1)
    /\ v_fi' = v_fi + 1
    /\ v_pc' = "files"
    /\ UNCHANGED <<notValVars, inv_files, v_ri, seen_ids, v_rc>>

\* validate_file on an empty list: the loop variable was never bound and the
\* statement after the loop raises UnboundLocalError, which nothing catches
ValidateUnbound ==
    /\ v_pc = "records"
    /\ v_ri = Len(InvFile)
    /\ Len(InvFile) = 0
    /\ v_pc' = "raised"
    /\ UNCHANGED <<notValVars, inv_files, v_fi, v_ri, v_issues, seen_ids, v_rc>>

\* main: return 0 if not report.errors else 1
ValidatorReturn ==
    /\ v_pc = "files"
    /\ v_fi = Len(inv_files)
    /\ v_rc' = IF \E i \in 1..Len(v_issues) : v_issues[i].level = "error" THEN 1 ELSE 0
    /\ v_pc' = "done"
    /\ UNCHANGED <<notValVars, inv_files, v_fi, v_ri, v_issues, seen_ids>>

ValidatorNext ==
    \/ LoadFile \/ LoopRecord \/ ValidateLast \/ ValidateUnbound \/ ValidatorReturn

(***************************************************************************)
(* test_log_health_report: _pick_best_junit                                *)
(***************************************************************************)
\* what a file of logs_dir can hold: text that does not parse (suites and
\* internal are then unused), or what pytest --junitxml writes, a testsuites
\* root with the "tests" counts of its suites; internal: some testcase has
\* name "internal" and classname "pytest"
JunitContents ==
    {[parses |-> FALSE, suites |-> <<>>, internal |-> FALSE],
     [parses |-> TRUE, suites |-> <<>>, internal |-> FALSE],
     [parses |-> TRUE, suites |-> <<1>>, internal |-> TRUE],
     [parses |-> TRUE, suites |-> <<1>>, internal |-> FALSE],
     [parses |-> TRUE, suites |-> <<2>>, internal |-> FALSE],
     [parses |-> TRUE, suites |-> <<1, 1>>, internal |-> TRUE]}

\* the names: junit_*.xml (pytest_log_runner's), junit_*.<other>, junit.<ext>
JunitNameKinds == {"junit_xml", "junit_other", "junit"}

JunitFiles ==
    {[kind |-> k, content |-> c, mtime |-> t] :
        k \in JunitNameKinds, c \in JunitContents, t \in 1..2}

RECURSIVE SumSeq(_)
SumSeq(q) == IF Len(q) = 0 THEN 0 ELSE q[1] + SumSeq(Tail(q))

\* a _totals_and_internal_only that never sees an internal-only artifact
_totals_never_internal(p) ==
    IF ~p.content.parses THEN <<0, FALSE>>
    ELSE <<SumSeq(p.content.suites), FALSE>>

_totals_and_internal_only(p) ==
    IF ~p.content.parses THEN <<0, FALSE>>
    ELSE LET total == SumSeq(p.content.suites)
         IN  <<total, total = 1 /\ p.content.internal>>

\* sorted(logs_dir.glob("junit_*.xml")), or sorted(logs_dir.glob("junit*.*"))
\* when there is none
GlobCandidates(dir) ==
    LET xml == SelectSeq(dir, LAMBDA p : p.kind = "junit_xml")
    IN  IF Len(xml) > 0 THEN xml ELSE dir

_latest_by_prefix(dir) ==
    LET candidates == SelectSeq(dir, LAMBDA p : p.kind \in {"junit_xml", "junit_other"})
    IN  IF Len(candidates) > 0 THEN Present(candidates[Len(candidates)]) ELSE Absent

\* the condition under which a candidate replaces best
Better(p, total) ==
    \/ total > best_total
    \/ total = best_total /\ (best = Absent \/ p.mtime > best[1].mtime)

JunitIdle ==
    /\ j_dir = <<>>
    /\ j_cands = <<>>
    /\ j_pc = "idle"
    /\ j_i = 0
    /\ best = Absent
    /\ best_total = -1
    /\ j_result = Absent

JunitInit ==
    /\ j_dir \in SeqsUpTo(JunitFiles, MaxJunit)
    /\ j_cands = <<>>
    /\ j_pc = "start"
    /\ j_i = 0
    /\ best = Absent
    /\ best_total = -1
    /\ j_result = Absent

PickStart ==
    /\ j_pc = "start"
    /\ j_cands' = GlobCandidates(j_dir)
    /\ j_pc' = "first"
    /\ UNCHANGED <<notJunitVars, j_dir, j_i, best, best_total, j_result>>

\* first pass: skip internal-only artifacts
FirstPassStep ==
    /\ j_pc = "first"
    /\ j_i < Len(j_cands)
    /\ LET p == j_cands[j_i + 1]
           t == _totals_and_internal_only(p)
       IN  IF ~t[2] /\ Better(p, t[1])
           THEN best' = Present(p) /\ best_total' = t[1]
           ELSE UNCHANGED <<best, best_total>>
    /\ j_i' = j_i + 1
    /\ UNCHANGED <<notJunitVars, j_dir, j_cands, j_pc, j_result>>

\* if best is not None: return best
FirstPassReturn ==
    /\ j_pc = "first"
    /\ j_i = Len(j_cands)
    /\ best # Absent
    /\ j_result' = best
    /\ j_pc' = "done"
    /\ UNCHANGED <<notJunitVars, j_dir, j_cands, j_i, best, best_total>>

SecondPassStart ==
    /\ j_pc = "first"
    /\ j_i = Len(j_cands)
    /\ best = Absent
    /\ j_pc' = "second"
    /\ j_i' = 0
    /\ UNCHANGED <<notJunitVars, j_dir, j_cands, best, best_total, j_result>>

\* second pass: include all, pick max tests
SecondPassStep ==
    /\ j_pc = "second"
    /\ j_i < Len(j_cands)
    /\ LET p == j_cands[j_i + 1]
           t == _totals_and_internal_only(p)
       IN  IF Better(p, t[1])
           THEN best' = Present(p) /\ best_total' = t[1]
           ELSE UNCHANGED <<best, best_total>>
    /\ j_i' = j_i + 1
    /\ UNCHANGED <<notJunitVars, j_dir, j_cands, j_pc, j_result>>

\* return best or _latest_by_prefix(logs_dir, "junit")
PickReturn ==
    /\ j_pc = "second"
    /\ j_i = Len(j_cands)
    /\ j_result' = IF best # Absent THEN best ELSE _latest_by_prefix(j_dir)
    /\ j_pc' = "done"
    /\ UNCHANGED <<notJunitVars, j_dir, j_cands, j_i, best, best_total>>

JunitNext ==
    \/ PickStart \/ FirstPassStep \/ FirstPassReturn
    \/ SecondPassStart \/ SecondPassStep \/ PickReturn

(***************************************************************************)
(* scan_monkey_patches.write_reports                                       *)
(***************************************************************************)
\* the artifacts, in the order write_reports writes them
Artifacts == <<"report.json", "report.csv", "SUMMARY.md">>

\* Finding objects as scan_file hands them over: the fields the reports
\* read, and the three blame fields at their default None
CreatedFindings ==
    [file : {"a.py", "b.py"},
     line : {1},
     category : {CATEGORY_SYS_MODULES, CATEGORY_ATTRIBUTE_REASSIGNMENT},
     import_base : {NoneVal, "requests"},
     git_author : {NoneVal},
     git_commit : {NoneVal},
     git_commit_date : {NoneVal}]

\* add_git_blame: (None, None, None) on any failure, else what git blame printed
BlameResults ==
    {[author |-> NoneVal, commit |-> NoneVal, date |-> NoneVal],
     [author |-> "author", commit |-> "0123abc", date |-> "2024-01-01T00:00:00+00:00"]}

\* the counters of SUMMARY.md (by_category, by_import_base, by_file)
CountBy(fs, field, v) == Cardinality({i \in 1..Len(fs) : fs[i][field] = v})
CountsBy(fs, field) ==
    [v \in {fs[i][field] : i \in 1..Len(fs)} |-> CountBy(fs, field, v)]

CsvHeader == <<"file", "line", "category", "import_base">>
CsvRow(f) ==
    <<f.file, f.line, f.category, IF f.import_base = NoneVal THEN "" ELSE f.import_base>>

SummaryText(fs) ==
    [by_category |-> CountsBy(fs, "category"),
     by_import_base |-> CountsBy(SelectSeq(fs, LAMBDA f : f.import_base # NoneVal), "import_base"),
     by_file |-> CountsBy(fs, "file")]

\* the complete content of an artifact, as the sequence of chunks written
FinalContent(name, fs) ==
    IF name = "report.json" THEN <<"[">> \o fs \o <<"]">>
    ELSE IF name = "report.csv" THEN <<CsvHeader>> \o [i \in 1..Len(fs) |-> CsvRow(fs[i])]
    ELSE <<SummaryText(fs)>>

WrIdle ==
    /\ with_git = FALSE
    /\ w_findings = <<>>
    /\ w_created = <<>>
    /\ w_pc = "idle"
    /\ w_art = 1
    /\ w_i = 0
    /\ w_files = [n \in {Artifacts[k] : k \in 1..Len(Artifacts)} |-> Absent]

WrInit ==
    /\ with_git \in BOOLEAN
    /\ w_findings \in SeqsUpTo(CreatedFindings, MaxReport)
    /\ w_created = w_findings
    /\ w_pc = "blame"
    /\ w_art = 1
    /\ w_i = 0
    /\ w_files = [n \in {Artifacts[k] : k \in 1..Len(Artifacts)} |-> Absent]

\* a blame loop that also rewrites the finding's line
BlameStepClobber ==
    /\ w_pc = "blame"
    /\ with_git
    /\ w_i < Len(w_findings)
    /\ \E b \in BlameResults :
           w_findings' = [w_findings EXCEPT ![w_i + 1] =
                             [@ EXCEPT !.git_author = b.author,
                                       !.git_commit = b.commit,
                                       !.git_commit_date = b.date,
                                       !.line = 0]]
    /\ w_i' = w_i + 1
    /\ UNCHANGED <<notWrVars, with_git, w_created, w_pc, w_art, w_files>>

\* write_reports: one iteration of the blame loop, which sets the three
\* blame fields of the Finding object in place
BlameStep ==
    /\ w_pc = "blame"
    /\ with_git
    /\ w_i < Len(w_findings)
    /\ \E b \in BlameResults :
           w_findings' = [w_findings EXCEPT ![w_i + 1] =
                             [@ EXCEPT !.git_author = b.author,
                                       !.git_commit = b.commit,
                                       !.git_commit_date = b.date]]
    /\ w_i' = w_i + 1
    /\ UNCHANGED <<notWrVars, with_git, w_created, w_pc, w_art, w_files>>

\* write_reports: the blame loop is over, or was not asked for
StartWriting ==
    /\ w_pc = "blame"
    /\ ~with_git \/ w_i = Len(w_findings)
    /\ w_pc' = "open"
    /\ w_i' = 0
    /\ UNCHANGED <<notWrVars, with_git, w_findings, w_created, w_art, w_files>>

\* path.open("w"): the file is created, or truncated, and is empty
OpenArtifact ==
    /\ w_pc = "open"
    /\ w_files' = [w_files EXCEPT ![Artifacts[w_art]] = Present(<<>>)]
    /\ w_pc' = "write"
    /\ w_i' = 0
    /\ UNCHANGED <<notWrVars, with_git, w_findings, w_created, w_art>>

\* json.dump / writer.writerow / sf.write: the next chunk reaches the file
WriteChunk ==
    /\ w_pc = "write"
    /\ LET name == Artifacts[w_art]
           final == FinalContent(name, w_findings)
       IN  /\ w_i < Len(final)
           /\ w_files' = [w_files EXCEPT ![name] = Present(Append(@[1], final[w_i + 1]))]
    /\ w_i' = w_i + 1
    /\ UNCHANGED <<notWrVars, with_git, w_findings, w_created, w_pc, w_art>>

\* the with block ends: the file is closed and the next artifact follows
CloseArtifact ==
    /\ w_pc = "write"
    /\ w_i = Len(FinalContent(Artifacts[w_art], w_findings))
    /\ IF w_art < Len(Artifacts)
       THEN w_art' = w_art + 1 /\ w_pc' = "open"
       ELSE w_art' = w_art /\ w_pc' = "done"
    /\ w_i' = 0
    /\ UNCHANGED <<notWrVars, with_git, w_findings, w_created, w_files>>

\* the run is interrupted (signal, crash, full disk) where it stands
Interrupt ==
    /\ w_pc \in {"blame", "open", "write"}
    /\ w_pc' = "interrupted"
    /\ UNCHANGED <<notWrVars, with_git, w_findings, w_created, w_art, w_i, w_files>>

ReportNext ==
    \/ BlameStep \/ StartWriting \/ OpenArtifact \/ WriteChunk \/ CloseArtifact
    \/ Interrupt

(***************************************************************************)
(* scan_monkey_patches.main and scan_file as a state machine               *)
(***************************************************************************)
CurFile == files[idx + 1]
CurLine == CurFile.lines[pos]
Scanner == "MonkeyPatchScanner"
Tracker == "ScopeTracker"

\* a node is visited once the definitions that ended before it are popped
AtNode == /\ pc = "visit"
          /\ pos <= Len(CurFile.lines)
          /\ CurLine.depth = Len(stack)

\* scan_file: ast.parse succeeds; ImportResolver pass; fresh scanner
\* a scan_file that keeps one ImportResolver for the whole run
ParseOkSharedResolver ==
    /\ pc = "loop"
    /\ idx < Len(files)
    /\ Parsable(CurFile)
    /\ resolver' = ResolveFrom(CurFile, 1, resolver)
    /\ stack' = <<>>
    /\ visitor' = Scanner
    /\ pos' = 1
    /\ findings' = <<>>
    /\ nTree' = 0
    /\ pc' = "visit"
    /\ UNCHANGED <<notScanVars, files, strict, context_lines, idx, all_findings, parse_errors, reports, rc>>

\* scan_file: ast.parse succeeds; ImportResolver pass; fresh scanner
ParseOk ==
    /\ pc = "loop"
    /\ idx < Len(files)
    /\ Parsable(CurFile)
    /\ resolver' = Resolve(CurFile)
    /\ stack' = <<>>
    /\ visitor' = Scanner
    /\ pos' = 1
    /\ findings' = <<>>
    /\ nTree' = 0
    /\ pc' = "visit"
    /\ UNCHANGED <<notScanVars, files, strict, context_lines, idx, all_findings, parse_errors, reports, rc>>

\* a strict run that stops at the first file that fails to parse
ParseFailStrictAbort ==
    /\ pc = "loop"
    /\ idx < Len(files)
    /\ ~Parsable(CurFile)
    /\ strict
    /\ parse_errors' = parse_errors + 1
    /\ rc' = 1
    /\ pc' = "done"
    /\ UNCHANGED <<notScanVars, files, strict, context_lines, idx, all_findings, reports,
                   resolver, stack, visitor, pos, findings, nTree>>

\* scan_file raises in strict mode; main counts the error and continues
ParseFailStrict ==
    /\ pc = "loop"
    /\ idx < Len(files)
    /\ ~Parsable(CurFile)
    /\ strict
    /\ parse_errors' = parse_errors + 1
    /\ idx' = idx + 1
    /\ UNCHANGED <<notScanVars, files, strict, context_lines, all_findings, reports, rc, pc,
                   resolver, stack, visitor, pos, findings, nTree>>

\* scan_file returns [] when not strict; main extends all_findings with it
ParseFailLenient ==
    /\ pc = "loop"
    /\ idx < Len(files)
    /\ ~Parsable(CurFile)
    /\ ~strict
    /\ findings' = <<>>
    /\ nTree' = 0
    /\ all_findings' = all_findings \o <<>>
    /\ idx' = idx + 1
    /\ UNCHANGED <<notScanVars, files, strict, context_lines, parse_errors, reports, rc, pc,
                   resolver, stack, visitor, pos>>

\* MonkeyPatchScanner.visit_Assign / visit_AnnAssign / visit_AugAssign
VisitAssign ==
    /\ AtNode
    /\ visitor = Scanner
    /\ CurLine.st.kind \in {"Assign", "AugAssign"}
    /\ findings' = findings \o _handle_assignment(CurLine.st.targets, idx + 1, CurFile,
                                                  LineNo(CurFile, pos), stack, resolver)
    /\ pos' = pos + 1
    /\ UNCHANGED <<notScanVars, files, strict, context_lines, idx, all_findings, parse_errors, reports, rc, pc,
                   resolver, stack, visitor, nTree>>

\* MonkeyPatchScanner.visit_Call (an expression statement holding a call)
VisitCall ==
    /\ AtNode
    /\ visitor = Scanner
    /\ CurLine.st.kind = "Call"
    /\ findings' = findings \o visit_Call(CurLine.st, idx + 1, CurFile,
                                          LineNo(CurFile, pos), stack, resolver)
    /\ pos' = pos + 1
    /\ UNCHANGED <<notScanVars, files, strict, context_lines, idx, all_findings, parse_errors, reports, rc, pc,
                   resolver, stack, visitor, nTree>>

\* MonkeyPatchScanner.visit_Delete
VisitDelete ==
    /\ AtNode
    /\ visitor = Scanner
    /\ CurLine.st.kind = "Delete"
    /\ findings' = findings \o visit_Delete(CurLine.st.targets, idx + 1, CurFile,
                                            LineNo(CurFile, pos), stack)
    /\ pos' = pos + 1
    /\ UNCHANGED <<notScanVars, files, strict, context_lines, idx, all_findings, parse_errors, reports, rc, pc,
                   resolver, stack, visitor, nTree>>

\* MonkeyPatchScanner.generic_visit of a node no handler is defined for
VisitOther ==
    /\ AtNode
    /\ visitor = Scanner
    /\ CurLine.st.kind \in {"Import", "ImportFrom", "Pass"}
    /\ pos' = pos + 1
    /\ UNCHANGED <<notScanVars, files, strict, context_lines, idx, all_findings, parse_errors, reports, rc, pc,
                   resolver, stack, visitor, findings, nTree>>

\* MonkeyPatchScanner.visit_FunctionDef / visit_ClassDef: the decorator loop,
\* then generic_visit hands the node to self.scope.visit, which pushes it; the
\* scanner has no visit_AsyncFunctionDef, so an async def goes to generic_visit
\* at once
VisitDef ==
    /\ AtNode
    /\ visitor = Scanner
    /\ CurLine.st.kind \in {"Decorator", "FunctionDef", "AsyncFunctionDef", "ClassDef"}
    /\ LET k == DefLineOf(CurFile, pos)
           def == CurFile.lines[k].st
       IN  /\ findings' = findings \o
                  (IF current(stack).is_module_scope /\ def.kind # "AsyncFunctionDef"
                   THEN DecoratorFindings(idx + 1, CurFile, pos, k, resolver)
                   ELSE <<>>)
           /\ stack' = Append(stack, <<ScopeKind(def), def.name>>)
           /\ pos' = k + 1
    /\ visitor' = Tracker
    /\ UNCHANGED <<notScanVars, files, strict, context_lines, idx, all_findings, parse_errors, reports, rc, pc,
                   resolver, nTree>>

\* ScopeTracker.generic_visit of a node inside a definition
ScopeGenericVisit ==
    /\ AtNode
    /\ visitor = Tracker
    /\ ~IsDef(CurLine.st)
    /\ pos' = pos + 1
    /\ UNCHANGED <<notScanVars, files, strict, context_lines, idx, all_findings, parse_errors, reports, rc, pc,
                   resolver, stack, visitor, findings, nTree>>

\* a ScopeTracker that pushes every definition as a function
ScopeVisitDefAsFunction ==
    /\ AtNode
    /\ visitor = Tracker
    /\ IsDef(CurLine.st)
    /\ stack' = Append(stack, <<"function", CurLine.st.name>>)
    /\ pos' = pos + 1
    /\ UNCHANGED <<notScanVars, files, strict, context_lines, idx, all_findings, parse_errors, reports, rc, pc,
                   resolver, visitor, findings, nTree>>

\* ScopeTracker.visit_FunctionDef / visit_AsyncFunctionDef / visit_ClassDef of a
\* nested definition: push
ScopeVisitDef ==
    /\ AtNode
    /\ visitor = Tracker
    /\ IsDef(CurLine.st)
    /\ stack' = Append(stack, <<ScopeKind(CurLine.st), CurLine.st.name>>)
    /\ pos' = pos + 1
    /\ UNCHANGED <<notScanVars, files, strict, context_lines, idx, all_findings, parse_errors, reports, rc, pc,
                   resolver, visitor, findings, nTree>>

\* the body of the innermost definition is exhausted: ScopeTracker pops; when
\* the outermost definition is left, self.scope.visit returns to the scanner
ScopeLeave ==
    /\ pc = "visit"
    /\ Len(stack) > 0
    /\ IF pos > Len(CurFile.lines) THEN TRUE ELSE CurLine.depth < Len(stack)
    /\ stack' = Front(stack)
    /\ visitor' = IF Len(stack) = 1 THEN Scanner ELSE Tracker
    /\ UNCHANGED <<notScanVars, files, strict, context_lines, idx, all_findings, parse_errors, reports, rc, pc,
                   resolver, pos, findings, nTree>>

\* scanner.visit(tree) returns
TreeDone ==
    /\ pc = "visit"
    /\ pos > Len(CurFile.lines)
    /\ Len(stack) = 0
    /\ nTree' = Len(findings)
    /\ pc' = IF strict THEN "return" ELSE "fallback"
    /\ UNCHANGED <<notScanVars, files, strict, context_lines, idx, all_findings, parse_errors, reports, rc,
                   resolver, stack, visitor, pos, findings>>

\* scan_file: the regex fallback block
RegexFallback ==
    /\ pc = "fallback"
    /\ findings' = findings \o FallbackAdditions(idx + 1, CurFile, regex_fallback(CurFile),
                                                 SeenKeys(findings))
    /\ pc' = "return"
    /\ UNCHANGED <<notScanVars, files, strict, context_lines, idx, all_findings, parse_errors, reports, rc,
                   resolver, stack, visitor, pos, nTree>>

\* main: all_findings.extend(fds)
ExtendFindings ==
    /\ pc = "return"
    /\ all_findings' = all_findings \o findings
    /\ idx' = idx + 1
    /\ pc' = "loop"
    /\ UNCHANGED <<notScanVars, files, strict, context_lines, parse_errors, reports, rc,
                   resolver, stack, visitor, pos, findings, nTree>>

\* main: write_reports(all_findings, ...)
WriteReports ==
    /\ pc = "loop"
    /\ idx = Len(files)
    /\ reports' = all_findings
    /\ pc' = "exit"
    /\ UNCHANGED <<notScanVars, files, strict, context_lines, idx, all_findings, parse_errors, rc,
                   resolver, stack, visitor, pos, findings, nTree>>

ExitCode(isStrict, errors) == IF isStrict /\ errors > 0 THEN 1 ELSE 0

\* main: return
Exit ==
    /\ pc = "exit"
    /\ rc' = ExitCode(strict, parse_errors)
    /\ pc' = "done"
    /\ UNCHANGED <<notScanVars, files, strict, context_lines, idx, all_findings, parse_errors, reports,
                   resolver, stack, visitor, pos, findings, nTree>>

ScanNext ==
    \/ ParseOk \/ ParseFailStrict \/ ParseFailLenient
    \/ VisitAssign \/ VisitCall \/ VisitDelete \/ VisitOther \/ VisitDef
    \/ ScopeGenericVisit \/ ScopeVisitDef \/ ScopeLeave
    \/ TreeDone \/ RegexFallback \/ ExtendFindings \/ WriteReports \/ Exit

(***************************************************************************)
(* scan_monkey_patches.run_self_test                                       *)
(***************************************************************************)
\* a fixture: its text starts with a blank line, and it lies in the root of
\* the temporary directory
Fixture(stmts) ==
    [lines |-> stmts, lead |-> 1, gap |-> 0, in_tests |-> FALSE]

\* sample_files, in name order
SelfTestFiles == <<
    \* a_modscope_assign.py
    Fixture(<<[depth |-> 0, st |-> ImportStmt(<<"requests">>, "")],
              [depth |-> 0, st |-> AssignStmt(<<AttributeOf(
                  <<"requests", "adapters", "DEFAULT_POOLSIZE">>)>>)]>>),
    \* b_setattr.py
    Fixture(<<[depth |-> 0, st |-> ImportStmt(<<"requests">>, "")],
              [depth |-> 0, st |-> CallStmt(<<"setattr">>, <<NameOf("requests")>>)]>>),
    \* c_sysmodules.py
    Fixture(<<[depth |-> 0, st |-> ImportStmt(<<"sys">>, "")],
              [depth |-> 0, st |-> AssignStmt(<<SysModules(<<"foo">>)>>)]>>),
    \* d_builtins.py
    Fixture(<<[depth |-> 0, st |-> ImportStmt(<<"builtins">>, "")],
              [depth |-> 0, st |-> AssignStmt(<<AttributeOf(<<"builtins", "open">>)>>)]>>),
    \* e_patch_misuse.py
    Fixture(<<[depth |-> 0, st |-> ImportFromStmt(<<"unittest", "mock">>, "patch", "")],
              [depth |-> 0, st |-> DecoratorStmt(<<"patch">>, TRUE)],
              [depth |-> 0, st |-> FunctionDefStmt("test_foo")],
              [depth |-> 1, st |-> PassStmt],
              [depth |-> 0, st |-> CallStmt(<<"patch">>, <<>>)]>>),
    \* f_env_mut.py
    Fixture(<<[depth |-> 0, st |-> ImportStmt(<<"os">>, "")],
              [depth |-> 0, st |-> AssignStmt(<<OsEnviron(<<"SOME_KEY">>)>>)],
              [depth |-> 0, st |-> CallStmt(<<"os", "environ", "update">>, <<>>)]>>),
    \* g_singleton_rebind.py
    Fixture(<<[depth |-> 0, st |-> ImportStmt(<<"logging">>, "")],
              [depth |-> 0, st |-> AssignStmt(<<AttributeOf(<<"logging", "getLogger">>)>>)]>>),
    \* h_from_import_attr.py
    Fixture(<<[depth |-> 0, st |-> ImportFromStmt(<<"somepkg">>, "moduleX", "mx")],
              [depth |-> 0, st |-> AssignStmt(<<AttributeOf(<<"mx", "feature_flag">>)>>)]>>)
>>

\* iter_python_files yields the fixtures in directory order, which the file
\* system decides: the rotations of the name order stand for it
Rotation(seq, k) == [i \in 1..Len(seq) |-> seq[((i + k - 1) % Len(seq)) + 1]]
SelfTestOrders == {Rotation(SelfTestFiles, k) : k \in 0..(Len(SelfTestFiles) - 1)}

\* run_self_test: the categories every self-test run must find
ExpectedCategories ==
    {CATEGORY_ATTRIBUTE_REASSIGNMENT, CATEGORY_SETATTR, CATEGORY_SYS_MODULES,
     CATEGORY_BUILTINS, CATEGORY_TEST_PATCH_MISUSE, CATEGORY_GLOBAL_ENV,
     CATEGORY_SINGLETON_REBIND}

CategoriesOf(found) == {found[i].category : i \in 1..Len(found)}

\* run_self_test: the loop over the fixtures is over; compare and return
SelfTestReturn ==
    /\ pc = "loop"
    /\ idx = Len(files)
    /\ rc' = IF ExpectedCategories \ CategoriesOf(all_findings) # {} THEN 2 ELSE 0
    /\ pc' = "done"
    /\ UNCHANGED <<notScanVars, files, strict, context_lines, idx, all_findings, parse_errors, reports,
                   resolver, stack, visitor, pos, findings, nTree>>

\* the steps of scan_file that the fixtures take: every fixture parses, none
\* deletes and none nests a definition in another
SelfTestNext ==
    \/ ParseOk
    \/ VisitAssign \/ VisitCall \/ VisitOther \/ VisitDef
    \/ ScopeGenericVisit \/ ScopeLeave
    \/ TreeDone \/ RegexFallback \/ ExtendFindings \/ SelfTestReturn

\* the line sequences of up to n lines in which every line may follow the
\* ones before it (the prefixes of parsable files)
MayFollow(ls, l) ==
    IF Len(ls) = 0 THEN l.depth = 0
    ELSE LET p == Last(ls)
         IN  /\ IF IsDef(p.st) THEN l.depth = p.depth + 1 ELSE l.depth <= p.depth
             /\ p.st.kind = "Decorator" =>
                    l.depth = p.depth /\ (IsDef(l.st) \/ l.st.kind = "Decorator")

RECURSIVE PrefixesUpTo(_)
PrefixesUpTo(n) ==
    IF n = 0 THEN {<<>>}
    ELSE LET shorter == PrefixesUpTo(n - 1)
         IN  shorter \cup
             UNION {{Append(ls, l) : l \in {x \in Lines : MayFollow(ls, x)}}
                    : ls \in {t \in shorter : Len(t) = n - 1}}

ScanLineSeqs ==
    {ls \in PrefixesUpTo(MaxLines) : ParsableLines(ls)}
    \cup SeqsUpTo(Lines, MaxMainLines)
MainFiles ==
    {[lines |-> ls, lead |-> 0, gap |-> 0, in_tests |-> t] :
        ls \in SeqsUpTo(Lines, MaxMainLines), t \in BOOLEAN}

(***************************************************************************)
(* pytest_log_runner: main's serial fallback and the idle watchdog of      *)
(* run_pytest_and_capture                                                  *)
(***************************************************************************)
\* the command line, abbreviated to the arguments whose order matters
BaseCmd == <<"python", "-m", "pytest", "--junitxml=junit.xml">>
XdistOpts == <<"-n", "auto">>
CovOpts == <<"--cov=.">>
OptionalOpts == {"-n", "--cov"}
Passthroughs == {<<>>, <<"tests">>}

\* base_cmd + passthrough
BuildCmd(supports, disabled, extra) ==
    BaseCmd
        \o (IF "-n" \in supports /\ ~disabled THEN XdistOpts ELSE <<>>)
        \o (IF "--cov" \in supports THEN CovOpts ELSE <<>>)
        \o extra

RECURSIVE _strip_after_flag(_, _)
_strip_after_flag(lst, flag) ==
    IF lst = <<>> THEN <<>>
    ELSE IF Head(lst) = flag
         THEN IF Len(lst) >= 2 THEN _strip_after_flag(Tail(Tail(lst)), flag) ELSE <<>>
         ELSE <<Head(lst)>> \o _strip_after_flag(Tail(lst), flag)

\* cmd_serial: the flag is filtered out first, then the value after it
cmd_serial(c) == _strip_after_flag(SelectSeq(c, LAMBDA a : a # "-n"), "-n")

exited_by_signal(code) == code < 0

FallbackWanted(term, code) ==
    (term \/ exited_by_signal(code)) /\ xdist_used /\ fallback_serial

\* the watchdog's two conditions, on the idle time of the current iteration
ShouldNotify(i, signaled) == i >= IdleTimeout /\ ~signaled
ShouldEscalateAtTimeout(i, signaled, term) == signaled /\ i >= IdleTimeout /\ ~term
ShouldEscalate(i, signaled, term) ==
    signaled /\ i >= IdleTimeout + EscalationGrace /\ ~term

MaxIdle == IdleTimeout + EscalationGrace + 1
ChildExitCodes == {0, 1, -11}

CountOf(s, x) == Cardinality({i \in 1..Len(s) : s[i] = x})

RunnerIdle ==
    /\ pr_pc = "idle"
    /\ pr_supports = {}
    /\ disable_xdist = FALSE
    /\ fallback_serial = FALSE
    /\ enable_sigusr1 = FALSE
    /\ passthrough = <<>>
    /\ cmd = <<>>
    /\ xdist_used = FALSE
    /\ launched = <<>>
    /\ outcomes = <<>>
    /\ pr_rc = 0
    /\ terminated = FALSE
    /\ pr_result = Absent
    /\ pr_idle = 0
    /\ signaled_dump = FALSE
    /\ loop_terminated = FALSE
    /\ pr_lines = <<>>
    /\ signals = <<>>
    /\ child = "none"
    /\ child_rc = 0

RunnerInit ==
    /\ pr_pc = "start"
    /\ pr_supports \in SUBSET OptionalOpts
    /\ disable_xdist \in BOOLEAN
    /\ fallback_serial \in BOOLEAN
    /\ enable_sigusr1 \in BOOLEAN
    /\ passthrough \in Passthroughs
    /\ cmd = <<>>
    /\ xdist_used = FALSE
    /\ launched = <<>>
    /\ outcomes = <<>>
    /\ pr_rc = 0
    /\ terminated = FALSE
    /\ pr_result = Absent
    /\ pr_idle = 0
    /\ signaled_dump = FALSE
    /\ loop_terminated = FALSE
    /\ pr_lines = <<>>
    /\ signals = <<>>
    /\ child = "none"
    /\ child_rc = 0

\* subprocess.Popen and the settings before the loop
StartChild ==
    /\ pr_idle' = 0
    /\ signaled_dump' = FALSE
    /\ loop_terminated' = FALSE
    /\ pr_lines' = <<>>
    /\ signals' = <<>>
    /\ child' = "running"
    /\ child_rc' = 0

\* main builds the command and starts the first run
RunnerStart ==
    /\ pr_pc = "start"
    /\ cmd' = BuildCmd(pr_supports, disable_xdist, passthrough)
    /\ xdist_used' = ("-n" \in pr_supports /\ ~disable_xdist)
    /\ launched' = <<cmd'>>
    /\ StartChild
    /\ pr_pc' = "loop"
    /\ UNCHANGED <<notRunnerVars, pr_supports, disable_xdist, fallback_serial,
                   enable_sigusr1, passthrough, outcomes, pr_rc, terminated, pr_result>>

\* an iteration that reads a line of output
LoopReadLine ==
    /\ pr_pc = "loop"
    /\ child = "running"
    /\ CountOf(pr_lines, "out") < MaxOutput
    /\ pr_lines' = Append(pr_lines, "out")
    /\ pr_idle' = 0
    /\ UNCHANGED <<notRunnerVars, pr_pc, pr_supports, disable_xdist, fallback_serial,
                   enable_sigusr1, passthrough, cmd, xdist_used, launched, outcomes,
                   pr_rc, terminated, pr_result, signaled_dump, loop_terminated,
                   signals, child, child_rc>>

\* an iteration without data that finds the child gone
LoopChildExited ==
    /\ pr_pc = "loop"
    /\ child = "exited"
    /\ pr_pc' = "wait"
    /\ UNCHANGED <<notRunnerVars, pr_supports, disable_xdist, fallback_serial,
                   enable_sigusr1, passthrough, cmd, xdist_used, launched, outcomes,
                   pr_rc, terminated, pr_result, pr_idle, signaled_dump,
                   loop_terminated, pr_lines, signals, child, child_rc>>

\* an iteration without data while the child runs: dt seconds went by since
\* the previous iteration; ignores_term: the child outlives SIGTERM by 10 s
LoopNoData(dt, ignores_term) ==
    /\ pr_pc = "loop"
    /\ child = "running"
    /\ pr_idle + dt <= MaxIdle
    /\ LET idle == pr_idle + dt
           notify == ShouldNotify(idle, signaled_dump)
           signaled == signaled_dump \/ notify
           escalate == ShouldEscalate(idle, signaled, loop_terminated)
       IN  /\ pr_idle' = idle
           /\ signaled_dump' = signaled
           /\ pr_lines' = pr_lines
                  \o (IF notify
                      THEN IF enable_sigusr1 THEN <<"sent SIGUSR1">> ELSE <<"SIGUSR1 disabled">>
                      ELSE <<>>)
                  \o (IF escalate
                      THEN <<"sent SIGTERM">> \o (IF ignores_term THEN <<"sent SIGKILL">> ELSE <<>>)
                      ELSE <<>>)
           /\ signals' = signals
                  \o (IF notify /\ enable_sigusr1 THEN <<"SIGUSR1">> ELSE <<>>)
                  \o (IF escalate
                      THEN <<"SIGTERM">> \o (IF ignores_term THEN <<"SIGKILL">> ELSE <<>>)
                      ELSE <<>>)
           /\ IF escalate
              THEN /\ loop_terminated' = TRUE
                   /\ child' = "exited"
                   /\ child_rc' = IF ignores_term THEN -9 ELSE -15
                   /\ pr_pc' = "wait"
              ELSE UNCHANGED <<loop_terminated, child, child_rc, pr_pc>>
    /\ UNCHANGED <<notRunnerVars, pr_supports, disable_xdist, fallback_serial,
                   enable_sigusr1, passthrough, cmd, xdist_used, launched, outcomes,
                   pr_rc, terminated, pr_result>>

\* the child ends by itself, or on a SIGUSR1 it has no handler for
ChildExits ==
    /\ pr_pc = "loop"
    /\ child = "running"
    /\ child' = "exited"
    /\ child_rc' \in ChildExitCodes
                     \cup (IF CountOf(signals, "SIGUSR1") > 0 THEN {-10} ELSE {})
    /\ UNCHANGED <<notRunnerVars, pr_pc, pr_supports, disable_xdist, fallback_serial,
                   enable_sigusr1, passthrough, cmd, xdist_used, launched, outcomes,
                   pr_rc, terminated, pr_result, pr_idle, signaled_dump,
                   loop_terminated, pr_lines, signals>>

\* the first run returns and main retries in serial mode
FirstRunFallback ==
    /\ pr_pc = "wait"
    /\ Len(launched) = 1
    /\ FallbackWanted(loop_terminated, child_rc)
    /\ pr_rc' = child_rc
    /\ terminated' = loop_terminated
    /\ outcomes' = Append(outcomes, [rc |-> child_rc, terminated |-> loop_terminated])
    /\ launched' = Append(launched, cmd_serial(cmd))
    /\ StartChild
    /\ pr_pc' = "loop"
    /\ UNCHANGED <<notRunnerVars, pr_supports, disable_xdist, fallback_serial,
                   enable_sigusr1, passthrough, cmd, xdist_used, pr_result>>

\* the first run returns and main returns its exit code
FirstRunFinal ==
    /\ pr_pc = "wait"
    /\ Len(launched) = 1
    /\ ~FallbackWanted(loop_terminated, child_rc)
    /\ pr_rc' = child_rc
    /\ terminated' = loop_terminated
    /\ outcomes' = Append(outcomes, [rc |-> child_rc, terminated |-> loop_terminated])
    /\ pr_result' = Present(child_rc)
    /\ pr_pc' = "done"
    /\ UNCHANGED <<notRunnerVars, pr_supports, disable_xdist, fallback_serial,
                   enable_sigusr1, passthrough, cmd, xdist_used, launched, pr_idle,
                   signaled_dump, loop_terminated, pr_lines, signals, child, child_rc>>

\* the retry returns: rc = rc2, and main returns rc
RetryReturn ==
    /\ pr_pc = "wait"
    /\ Len(launched) = 2
    /\ pr_rc' = child_rc
    /\ outcomes' = Append(outcomes, [rc |-> child_rc, terminated |-> loop_terminated])
    /\ pr_result' = Present(child_rc)
    /\ pr_pc' = "done"
    /\ UNCHANGED <<notRunnerVars, pr_supports, disable_xdist, fallback_serial,
                   enable_sigusr1, passthrough, cmd, xdist_used, launched, terminated,
                   pr_idle, signaled_dump, loop_terminated, pr_lines, signals, child,
                   child_rc>>

RunnerNext ==
    \/ RunnerStart
    \/ LoopReadLine
    \/ LoopChildExited
    \/ \E dt \in 1..MaxTick, ignores_term \in BOOLEAN : LoopNoData(dt, ignores_term)
    \/ ChildExits
    \/ FirstRunFallback
    \/ FirstRunFinal
    \/ RetryReturn

(***************************************************************************)
(* import_graph_report: find_cycles and report.md;                         *)
(* health_suite_summary: _load_import_graph                                *)
(***************************************************************************)
\* the owned packages of the model, in lexicographic order
NodeNames == <<"agents", "api", "scripts">>
Nodes == {NodeNames[i] : i \in 1..Len(NodeNames)}
NameRank(n) == CHOOSE i \in 1..Len(NodeNames) : NodeNames[i] = n

\* the orders in which a dict or a set of these elements may be iterated
Orderings(S) ==
    {s \in [1..Cardinality(S) -> S] : \A i, j \in 1..Cardinality(S) : s[i] = s[j] => i = j}

Elems(s) == {s[i] : i \in 1..Len(s)}

\* graph.get(cur, ()) in iteration order
Neighbours(cur) == IF cur \in Elems(graph_keys) THEN graph_adj[cur] ELSE <<>>

\* the body of `for nxt in graph.get(cur, ())` on the state of the walk
VisitNeighbour(st, start, cur, path, nxt) ==
    IF nxt = start /\ Len(path) > 1
    THEN [st EXCEPT !.cycles = Append(@, Append(path, start))]
    ELSE IF <<cur, nxt>> \notin st.seen /\ nxt \in Elems(graph_keys)
         THEN [st EXCEPT !.seen = @ \cup {<<cur, nxt>>},
                         !.stack = IF nxt \notin Elems(path)
                                   THEN Append(@, <<nxt, Append(path, nxt)>>)
                                   ELSE @]
         ELSE st

RECURSIVE VisitNeighbours(_, _, _, _, _)
VisitNeighbours(st, start, cur, path, ns) ==
    IF ns = <<>> THEN st
    ELSE VisitNeighbours(VisitNeighbour(st, start, cur, path, Head(ns)),
                         start, cur, path, Tail(ns))

\* `while stack:` for one start
RECURSIVE WalkFrom(_, _)
WalkFrom(st, start) ==
    IF st.stack = <<>> THEN st.cycles
    ELSE LET top == st.stack[Len(st.stack)]
             popped == [st EXCEPT !.stack = SubSeq(@, 1, Len(@) - 1)]
         IN  WalkFrom(VisitNeighbours(popped, start, top[1], top[2], Neighbours(top[1])),
                      start)

\* `for start in nodes:` from the k-th key on
RECURSIVE RawCycles(_, _)
RawCycles(k, cycles) ==
    IF k > Len(graph_keys) THEN cycles
    ELSE RawCycles(k + 1,
                   WalkFrom([stack |-> <<<<graph_keys[k], <<graph_keys[k]>>>>>>,
                             seen |-> {},
                             cycles |-> cycles],
                            graph_keys[k]))

\* body rotated to start with its lexicographically smallest node
Rotated(c) ==
    LET body == SubSeq(c, 1, Len(c) - 1)
        k == CHOOSE i \in 1..Len(body) :
                 \A j \in 1..Len(body) :
                     \/ NameRank(body[i]) < NameRank(body[j])
                     \/ NameRank(body[i]) = NameRank(body[j]) /\ i <= j
    IN  SubSeq(body, k, Len(body)) \o SubSeq(body, 1, k - 1)

RECURSIVE NormFrom(_, _, _)
NormFrom(cycles, norm, seen_sig) ==
    IF cycles = <<>> THEN norm
    ELSE LET rot == Rotated(Head(cycles))
         IN  IF rot \notin seen_sig
             THEN NormFrom(Tail(cycles), Append(norm, Append(rot, rot[1])),
                           seen_sig \cup {rot})
             ELSE NormFrom(Tail(cycles), norm, seen_sig)

\* a normalisation that rotates but never drops a cycle already present
NormalizeKeepAll(cycles) ==
    [i \in 1..Len(cycles) |-> Append(Rotated(cycles[i]), Rotated(cycles[i])[1])]

Normalize(cycles) == NormFrom(cycles, <<>>, {})

find_cycles == Normalize(RawCycles(1, <<>>))

\* fan_metrics
fan_out == [n \in Nodes |-> Len(graph_adj[n])]
fan_in == [n \in Nodes |-> Cardinality({k \in Elems(graph_keys) : n \in Elems(graph_adj[k])})]
FanInKeys == {n \in Nodes : fan_in[n] > 0}

\* sorted(d.items(), key=lambda x: (-x[1], x[0]))
RECURSIVE SortedByCount(_, _)
SortedByCount(S, cnt) ==
    IF S = {} THEN <<>>
    ELSE LET first == CHOOSE a \in S :
                          \A b \in S :
                              \/ cnt[a] > cnt[b]
                              \/ cnt[a] = cnt[b] /\ NameRank(a) <= NameRank(b)
         IN  <<first>> \o SortedByCount(S \ {first}, cnt)

TopLimit == 10

top_n(S, cnt) ==
    LET s == SortedByCount(S, cnt)
    IN  SubSeq(s, 1, IF Len(s) < TopLimit THEN Len(s) ELSE TopLimit)

\* a line of report.md after splitlines: its kind and its stripped text
Heading(text) == [kind |-> "heading", text |-> text]
Item(text) == [kind |-> "item", text |-> text]
Other(text) == [kind |-> "other", text |-> text]

\* " -> ".join(cyc)
JoinArrow(cyc) ==
    [i \in 1..(2 * Len(cyc) - 1) |-> IF i % 2 = 1 THEN cyc[(i + 1) \div 2] ELSE "->"]

FanLines(names, cnt) ==
    [i \in 1..Len(names) |-> Item(<<names[i], ":", ToString(cnt[names[i]])>>)]

\* the lines main writes to report.md
ReportLines(cycles) ==
    <<Other("# Import Graph Report"), Other(""), Other("Date"), Other(""), Other(""),
      Heading("## Hotspots"), Other(""), Other(""),
      Heading("### Top fan-in (modules most depended on)"), Other("")>>
    \o FanLines(top_n(FanInKeys, fan_in), fan_in)
    \o <<Other(""), Heading("### Top fan-out (modules with many dependencies)"), Other("")>>
    \o FanLines(top_n(Elems(graph_keys), fan_out), fan_out)
    \o <<Other(""), Heading("## Cycles"), Other("")>>
    \o (IF cycles = <<>> THEN <<Item(<<"None detected">>)>>
        ELSE [i \in 1..Len(cycles) |-> Item(JoinArrow(cycles[i]))])

CycleListLimit == 10

RECURSIVE ExtractFrom(_, _, _, _, _)
ExtractFrom(report, heading, limit, capture, items) ==
    IF report = <<>> THEN items
    ELSE LET raw == Head(report)
         IN  IF raw.kind = "heading" /\ raw.text = heading
             THEN ExtractFrom(Tail(report), heading, limit, TRUE, items)
             ELSE IF raw.kind = "heading" /\ capture THEN items
             ELSE IF capture /\ raw.kind = "item"
                  THEN IF limit # 0 /\ Len(items) + 1 >= limit
                       THEN Append(items, raw.text)
                       ELSE ExtractFrom(Tail(report), heading, limit, capture,
                                        Append(items, raw.text))
                  ELSE ExtractFrom(Tail(report), heading, limit, capture, items)

\* limit 0 stands for limit=None
_extract_markdown_list(report, heading, limit) ==
    ExtractFrom(report, heading, limit, FALSE, <<>>)

\* the cycles _load_import_graph returns
LoadedCycles(report) ==
    LET cycles == _extract_markdown_list(report, "### Cycles (first 10)", CycleListLimit)
    IN  IF cycles = <<>> THEN <<<<"None detected">>>> ELSE cycles

GraphInputs == [Nodes -> UNION {Orderings(S) : S \in SUBSET Nodes}]

GraphIdle ==
    /\ ig_pc = "idle"
    /\ graph_keys = <<>>
    /\ graph_adj = [n \in Nodes |-> <<>>]
    /\ ig_cycles = <<>>
    /\ report_md = <<>>
    /\ sum_cycles = <<>>

\* build_graph's result: only modules with an import are keys
GraphInit ==
    /\ ig_pc = "built"
    /\ graph_adj \in GraphInputs
    /\ graph_keys \in Orderings({n \in Nodes : graph_adj[n] # <<>>})
    /\ ig_cycles = <<>>
    /\ report_md = <<>>
    /\ sum_cycles = <<>>

\* import_graph_report.main: cycles = find_cycles(graph)
FindCycles ==
    /\ ig_pc = "built"
    /\ ig_cycles' = find_cycles
    /\ ig_pc' = "cycles"
    /\ UNCHANGED <<notGraphVars, graph_keys, graph_adj, report_md, sum_cycles>>

\* import_graph_report.main: report.md
WriteReportMd ==
    /\ ig_pc = "cycles"
    /\ report_md' = ReportLines(ig_cycles)
    /\ ig_pc' = "written"
    /\ UNCHANGED <<notGraphVars, graph_keys, graph_adj, ig_cycles, sum_cycles>>

\* health_suite_summary: _load_import_graph, then the Cycles (first 10) list
LoadImportGraph ==
    /\ ig_pc = "written"
    /\ sum_cycles' = LoadedCycles(report_md)
    /\ ig_pc' = "summarized"
    /\ UNCHANGED <<notGraphVars, graph_keys, graph_adj, ig_cycles, report_md>>

GraphNext ==
    \/ FindCycles
    \/ WriteReportMd
    \/ LoadImportGraph

InitRest ==
    /\ strict \in BOOLEAN
    /\ idx = 0
    /\ all_findings = <<>>
    /\ parse_errors = 0
    /\ reports = NotWritten
    /\ rc = NoRc
    /\ pc = "loop"
    /\ resolver = EmptyResolver
    /\ stack = <<>>
    /\ visitor = Scanner
    /\ pos = 1
    /\ findings = <<>>
    /\ nTree = 0
    /\ ClsIdle
    /\ OrchIdle
    /\ WrIdle /\ ValIdle /\ JunitIdle /\ RunnerIdle /\ GraphIdle

\* --context-lines is left at its default
InitCommon == context_lines = DEFAULT_CONTEXT_LINES /\ InitRest

\* one file of up to MaxLines lines
OneFileInit ==
    /\ \E ls \in ScanLineSeqs, g \in Gaps, t \in BOOLEAN :
           /\ Len(ls) <= 1 => g = 0
           /\ files = <<[lines |-> ls, lead |-> 0, gap |-> g, in_tests |-> t]>>
    /\ InitCommon

\* one file holding a decorated definition: an import of patch, one or two
\* decorator lines, the def or class line and a one-line body
Decorators ==
    {DecoratorStmt(<<"patch">>, TRUE),           \* @patch(...)
     DecoratorStmt(<<"patch">>, FALSE),          \* @patch
     DecoratorStmt(<<"staticmethod">>, FALSE)}   \* @staticmethod
DecoratedLines ==
    {<<[depth |-> 0, st |-> ImportFromStmt(<<"unittest", "mock">>, "patch", "")]>>
     \o [i \in 1..Len(decs) |-> [depth |-> 0, st |-> decs[i]]]
     \o <<[depth |-> 0, st |-> def], [depth |-> 1, st |-> body]>> :
        decs \in SeqsUpTo(Decorators, 2) \ {<<>>},
        def \in {FunctionDefStmt("f"), ClassDefStmt("C")},
        body \in {PassStmt, CallStmt(<<"patch">>, <<>>)}}
DecoratedInit ==
    /\ \E ls \in DecoratedLines, t \in BOOLEAN :
           files = <<[lines |-> ls, lead |-> 0, gap |-> 0, in_tests |-> t]>>
    /\ InitCommon

\* a run over up to MaxFiles short files
RunInit == /\ files \in SeqsUpTo(MainFiles, MaxFiles)
           /\ InitCommon

\* one file that imports a module, project-owned ("tests") or not, and then
\* assigns to an attribute of it or calls setattr on it
OwnedOrNot == {"tests", "requests"}

ProjectLines ==
    {<<[depth |-> 0, st |-> ImportStmt(<<mod>>, "")], [depth |-> 0, st |-> st]>> :
        mod \in OwnedOrNot,
        st \in {AssignStmt(<<AttributeOf(<<"tests", "api">>)>>),     \* tests.api = v
                AssignStmt(<<AttributeOf(<<"requests", "api">>)>>),  \* requests.api = v
                CallStmt(<<"setattr">>, <<NameOf("tests")>>),        \* setattr(tests, ...)
                CallStmt(<<"setattr">>, <<NameOf("requests")>>)}}    \* setattr(requests, ...)

ProjectInit ==
    /\ \E ls \in ProjectLines, g \in Gaps, t \in BOOLEAN :
           files = <<[lines |-> ls, lead |-> 0, gap |-> g, in_tests |-> t]>>
    /\ InitCommon

\* one file that imports a module or a name, plainly, dotted or under an
\* alias, and then assigns to an attribute reached through it or rebinds it
AliasImports ==
    {ImportStmt(<<"logging">>, ""),                  \* import logging
     ImportStmt(<<"logging">>, "lg"),                \* import logging as lg
     ImportFromStmt(<<"logging">>, "getLogger", ""), \* from logging import getLogger
     ImportStmt(<<"pkg", "sub">>, ""),               \* import pkg.sub
     ImportStmt(<<"pkg", "sub">>, "ps")}             \* import pkg.sub as ps

AliasAssigns ==
    {AssignStmt(<<AttributeOf(<<"logging", "getLogger">>)>>), \* logging.getLogger = v
     AssignStmt(<<AttributeOf(<<"lg", "getLogger">>)>>),      \* lg.getLogger = v
     AssignStmt(<<NameOf("getLogger")>>),                     \* getLogger = v
     AssignStmt(<<AttributeOf(<<"pkg", "sub", "attr">>)>>),   \* pkg.sub.attr = v
     AssignStmt(<<AttributeOf(<<"sub", "attr">>)>>),          \* sub.attr = v
     AssignStmt(<<AttributeOf(<<"ps", "attr">>)>>)}           \* ps.attr = v

AliasInit ==
    /\ \E imp \in AliasImports, st \in AliasAssigns, g \in Gaps, t \in BOOLEAN :
           files = <<[lines |-> <<[depth |-> 0, st |-> imp], [depth |-> 0, st |-> st]>>,
                      lead |-> 0, gap |-> g, in_tests |-> t]>>
    /\ InitCommon

\* one file of three nested definitions (def, async def or class), a statement
\* in the innermost body and a statement after it at any depth
NestDefs == {FunctionDefStmt("f"), AsyncFunctionDefStmt("g"), ClassDefStmt("C")}

NestLines ==
    {<<[depth |-> 0, st |-> d1], [depth |-> 1, st |-> d2], [depth |-> 2, st |-> d3],
       [depth |-> 3, st |-> body], [depth |-> t, st |-> PassStmt]>> :
        d1 \in NestDefs, d2 \in NestDefs, d3 \in NestDefs,
        body \in {PassStmt, AssignStmt(<<SysModules(<<"k">>)>>)},
        t \in 0..3}

NestInit ==
    /\ \E ls \in NestLines :
           files = <<[lines |-> ls, lead |-> 0, gap |-> 0, in_tests |-> FALSE]>>
    /\ InitCommon

\* one file scanned with a --context-lines of 0..MaxContext: a statement the
\* tree pass reports, and a nested one that only the fallback reports
ContextLines ==
    {<<[depth |-> 0, st |-> AssignStmt(<<SysModules(<<"k">>)>>)]>>,
     <<[depth |-> 0, st |-> ImportStmt(<<"requests">>, "")],
       [depth |-> 0, st |-> AssignStmt(<<AttributeOf(<<"requests", "api">>)>>)]>>,
     <<[depth |-> 0, st |-> CallStmt(<<"setattr">>, <<NameOf("requests")>>)],
       [depth |-> 0, st |-> FunctionDefStmt("f")],
       [depth |-> 1, st |-> AssignStmt(<<SysModules(<<"k">>)>>)]>>}

ContextInit ==
    /\ \E ls \in ContextLines, g \in Gaps, l \in 0..MaxContext :
           /\ Len(ls) <= 1 => g = 0
           /\ files = <<[lines |-> ls, lead |-> l, gap |-> g, in_tests |-> FALSE]>>
    /\ context_lines \in 0..MaxContext
    /\ InitRest

ScanInit ==
    \/ OneFileInit \/ RunInit \/ DecoratedInit \/ ProjectInit \/ AliasInit \/ NestInit
    \/ ContextInit

ScanSpec == ScanInit /\ [][ScanNext]_vars

(***************************************************************************)
(* Properties of scan_file and of the scanner's main loop                  *)
(***************************************************************************)
\* scan_file has returned `findings` for the parsable file CurFile
Returned == pc = "return"
\* the tree pass of the current file is over
TreePassOver == pc \in {"fallback", "return"}

IndexOfLine(f, n) == IF n - f.lead <= 1 THEN n - f.lead ELSE n - f.lead - f.gap
DepthOfLine(f, n) == f.lines[IndexOfLine(f, n)].depth

\* the definition line enclosing line i at depth d
EnclosingDef(f, i, d) ==
    CHOOSE j \in 1..(i - 1) :
        /\ f.lines[j].depth = d
        /\ IsDef(f.lines[j].st)
        /\ \A k \in (j + 1)..i : f.lines[k].depth > d

\* the definitions line i is nested in, outermost first
EnclosingStack(f, i) ==
    [d \in 1..f.lines[i].depth |->
        LET def == f.lines[EnclosingDef(f, i, d - 1)].st
        IN  <<ScopeKind(def), def.name>>]

\* what the detection rules report for the statement at line i, nested as it is
RuleFindings(fileId, f, i) ==
    LET st == f.lines[i].st
        stk == EnclosingStack(f, i)
        r == Resolve(f)
    IN  IF st.kind \in {"Assign", "AugAssign"}
            THEN _handle_assignment(st.targets, fileId, f, LineNo(f, i), stk, r)
        ELSE IF st.kind = "Call" THEN visit_Call(st, fileId, f, LineNo(f, i), stk, r)
        ELSE IF st.kind = "Delete" THEN visit_Delete(st.targets, fileId, f, LineNo(f, i), stk)
        ELSE <<>>

KeyOf(fd) == <<fd.line, fd.category>>
CountKey(found, key) == Cardinality({i \in 1..Len(found) : KeyOf(found[i]) = key})
TreeKeys == {KeyOf(findings[i]) : i \in 1..nTree}
RegexKeys == {regex_fallback(CurFile)[i] : i \in 1..Len(regex_fallback(CurFile))}

\* C1: in non-strict mode, every key (line, category) of the file that both
\* the tree pass and the regex fallback flag occurs in exactly one returned
\* Finding.
C1_ExactlyOnePerKey ==
    (Returned /\ ~strict) =>
        \A key \in TreeKeys \cap RegexKeys : CountKey(findings, key) = 1

\* C2 (as claimed): every returned Finding, tree-based or fallback, has
\* is_module_scope true iff its line is not nested in a definition.
C2_ScopeFlagAllFindings ==
    Returned =>
        \A i \in 1..Len(findings) :
            findings[i].is_module_scope <=> DepthOfLine(CurFile, findings[i].line) = 0

\* C2 (amended): a tree-based Finding has is_module_scope true iff its line is
\* not nested in a definition; a fallback Finding has is_module_scope true
\* wherever its line is.
C2_ScopeFlagTreeFindings ==
    Returned =>
        /\ \A i \in 1..nTree :
               findings[i].is_module_scope <=> DepthOfLine(CurFile, findings[i].line) = 0
        /\ \A i \in (nTree + 1)..Len(findings) : findings[i].is_module_scope

\* witness of C2: a returned result with a tree-based finding and with a
\* fallback finding on a nested line
C2_Witness ==
    /\ Returned
    /\ nTree > 0
    /\ \E i \in (nTree + 1)..Len(findings) : DepthOfLine(CurFile, findings[i].line) > 0

HasSysModulesAssign(f) ==
    \E i \in 1..Len(f.lines) :
        /\ f.lines[i].st.kind \in {"Assign", "AugAssign"}
        /\ \E k \in 1..Len(f.lines[i].st.targets) :
               LET t == f.lines[i].st.targets[k]
               IN  t.t = "Subscript" /\ t.value = <<"sys", "modules">>

\* C3: a parsable file with an assignment to a subscript of sys.modules, at
\* any depth, yields a sys_modules_assignment Finding, strict or not.
C3_SysModulesReported ==
    (Returned /\ HasSysModulesAssign(CurFile)) =>
        \E i \in 1..Len(findings) : findings[i].category = CATEGORY_SYS_MODULES

HasEnvMutation(f) ==
    \E i \in 1..Len(f.lines) :
        LET st == f.lines[i].st
        IN  \/ /\ st.kind = "Assign"
               /\ \E k \in 1..Len(st.targets) :
                      st.targets[k].t = "Subscript"
                      /\ st.targets[k].value = <<"os", "environ">>
            \/ st.kind = "Call" /\ st.func = <<"os", "environ", "update">>

\* C4: a parsable file with os.environ[K] = v or os.environ.update(...), at
\* any depth, yields a global_env_mutation Finding.
C4_GlobalEnvReported ==
    (Returned /\ HasEnvMutation(CurFile)) =>
        \E i \in 1..Len(findings) : findings[i].category = CATEGORY_GLOBAL_ENV

\* C5: after the tree pass, every nested statement that matches a detection
\* rule has a tree-based Finding at its line with is_module_scope false and
\* the innermost enclosing function and class names.
C5_NestedStatementsReported ==
    TreePassOver =>
        \A i \in 1..Len(CurFile.lines) :
            (CurFile.lines[i].depth > 0 /\ Len(RuleFindings(idx + 1, CurFile, i)) > 0) =>
                LET sc == current(EnclosingStack(CurFile, i))
                IN  \E j \in 1..nTree :
                        /\ findings[j].line = LineNo(CurFile, i)
                        /\ ~findings[j].is_module_scope
                        /\ findings[j].function = sc.fn
                        /\ findings[j].class_name = sc.cl

ImportLinesOf(f) ==
    {LineNo(f, i) : i \in {k \in 1..Len(f.lines) :
                              f.lines[k].st.kind \in {"Import", "ImportFrom"}}}
NearAnImport(f, n) == \E li \in ImportLinesOf(f) : n - li <= ImportWindow /\ li - n <= ImportWindow

\* C6: the tree pass emits import_time_side_effect exactly for the
\* attribute_reassignment_on_import Findings (attribute assignment or bare
\* rebinding) of module-scope statements within 5 lines of an import, with
\* the same line and import_base.
C6_ImportTimeSameTrigger ==
    TreePassOver =>
        /\ \A j \in 1..nTree :
               (/\ findings[j].category = CATEGORY_ATTRIBUTE_REASSIGNMENT
                /\ findings[j].is_module_scope
                /\ NearAnImport(CurFile, findings[j].line))
               => \E k \in 1..nTree :
                      /\ findings[k].category = CATEGORY_IMPORT_TIME
                      /\ findings[k].line = findings[j].line
                      /\ findings[k].import_base = findings[j].import_base
        /\ \A k \in 1..nTree :
               findings[k].category = CATEGORY_IMPORT_TIME
               => /\ findings[k].is_module_scope
                  /\ NearAnImport(CurFile, findings[k].line)
                  /\ \E j \in 1..nTree :
                         /\ findings[j].category = CATEGORY_ATTRIBUTE_REASSIGNMENT
                         /\ findings[j].line = findings[k].line
                         /\ findings[j].import_base = findings[k].import_base

Unparsable(k) == ~Parsable(files[k])
StartsWithSysModules(f) ==
    /\ Len(f.lines) > 0
    /\ f.lines[1].st = AssignStmt(<<SysModules(<<"k">>)>>)

\* C8: when main returns, the loop went through every file; a file that fails
\* to parse has no finding in the reports; every parsable file was scanned
\* (one that starts with sys.modules[k] = v has its finding in the reports);
\* the exit code is 1 iff strict mode is on and some file failed to parse.
C8_ParseFailureHandling ==
    pc = "done" =>
        /\ idx = Len(files)
        /\ reports = all_findings
        /\ \A k \in 1..Len(files) :
               /\ Unparsable(k) => \A i \in 1..Len(reports) : reports[i].file # k
               /\ (~Unparsable(k) /\ StartsWithSysModules(files[k])) =>
                      \E i \in 1..Len(reports) :
                          /\ reports[i].file = k
                          /\ reports[i].line = LineNo(files[k], 1)
                          /\ reports[i].category = CATEGORY_SYS_MODULES
        /\ rc = IF strict /\ (\E k \in 1..Len(files) : Unparsable(k)) THEN 1 ELSE 0

\* witness of C8: a strict run returned 1 after a file failed to parse, and
\* the file after it was scanned and reported
C8_Witness ==
    /\ pc = "done"
    /\ strict
    /\ rc = 1
    /\ Len(files) = 2
    /\ Unparsable(1)
    /\ \E i \in 1..Len(reports) : reports[i].file = 2

\* witness of C8, lenient side: a non-strict run returned 0 although a file
\* failed to parse
C8_WitnessLenient ==
    /\ pc = "done" /\ ~strict /\ rc = 0
    /\ \E k \in 1..Len(files) : Unparsable(k)


(***************************************************************************)
(* Properties of the risk classifier                                       *)
(***************************************************************************)
ClassifyNext == AggregateStep

ScanIdle ==
    /\ files = <<>>
    /\ strict = FALSE
    /\ context_lines = DEFAULT_CONTEXT_LINES
    /\ idx = 0
    /\ all_findings = <<>>
    /\ parse_errors = 0
    /\ reports = NotWritten
    /\ rc = NoRc
    /\ pc = "idle"
    /\ resolver = EmptyResolver
    /\ stack = <<>>
    /\ visitor = Scanner
    /\ pos = 1
    /\ findings = <<>>
    /\ nTree = 0

ClassifyInit == ClsInit /\ ScanIdle /\ OrchIdle /\ WrIdle /\ ValIdle /\ JunitIdle /\ RunnerIdle /\ GraphIdle

ClassifySpec == ClassifyInit /\ [][ClassifyNext]_vars

IsHigh(f) ==
    /\ ~f.is_test
    /\ \/ f.category \in {CATEGORY_SYS_MODULES, CATEGORY_IMPORT_TIME}
       \/ f.category = CATEGORY_GLOBAL_ENV /\ f.is_module_scope
IsModerate(f) ==
    \/ f.category = CATEGORY_ATTRIBUTE_REASSIGNMENT /\ ~f.is_test
    \/ f.category = CATEGORY_GLOBAL_ENV /\ f.is_test

InBucket(level, f) ==
    /\ level \in DOMAIN buckets
    /\ \E i \in 1..Len(buckets[level]) : buckets[level][i] = f

BucketTotal ==
    LET len(l) == IF l \in DOMAIN buckets THEN Len(buckets[l]) ELSE 0
    IN  len("HIGH") + len("MODERATE") + len("SAFE")

\* C7: every classified finding lands in exactly one of the buckets HIGH,
\* MODERATE, SAFE: HIGH iff outside tests with category sys_modules_assignment
\* or import_time_side_effect, or global_env_mutation at module scope;
\* MODERATE iff attribute_reassignment_on_import outside tests or
\* global_env_mutation inside tests; SAFE in every other case.
C7_ClassifyTable ==
    /\ DOMAIN buckets \subseteq RiskLevels
    /\ BucketTotal = cl_i
    /\ \A i \in 1..cl_i :
           LET f == cl_findings[i]
           IN  /\ InBucket("HIGH", f) <=> IsHigh(f)
               /\ InBucket("MODERATE", f) <=> IsModerate(f)
               /\ InBucket("SAFE", f) <=> (~IsHigh(f) /\ ~IsModerate(f))

\* witness of C7: all three levels were assigned, SAFE to a test_patch_misuse
\* and HIGH to a module-scope global_env_mutation
C7_Witness ==
    /\ cl_i = Len(cl_findings)
    /\ \E i \in 1..cl_i : cl_findings[i].category = CATEGORY_TEST_PATCH_MISUSE
                          /\ InBucket("SAFE", cl_findings[i])
    /\ \E i \in 1..cl_i : cl_findings[i].category = CATEGORY_GLOBAL_ENV
                          /\ InBucket("HIGH", cl_findings[i])


(***************************************************************************)
(* Properties of the health-suite orchestrator                             *)
(***************************************************************************)
OrchestratorInit == OrchInit /\ ScanIdle /\ ClsIdle /\ WrIdle /\ ValIdle /\ JunitIdle /\ RunnerIdle /\ GraphIdle

OrchSpec == OrchestratorInit /\ [][OrchNext]_vars

\* the orchestrator's own threads make progress, a signalled process dies and
\* time passes; a process need not ever exit on its own
OrchFairSpec ==
    /\ OrchestratorInit
    /\ [][OrchNext]_vars
    /\ WF_vars(SkipStep) /\ WF_vars(LaunchLive) /\ WF_vars(LaunchCaptured)
    /\ WF_vars(Tick) /\ WF_vars(ProcSignalled)
    /\ WF_vars(HeartbeatWake) /\ WF_vars(HeartbeatGraceOver)
    /\ WF_vars(RecordLive) /\ WF_vars(RecordCaptured) /\ WF_vars(CapturedTimeout)
    /\ WF_vars(RecordTimeout) /\ WF_vars(FinishRun)

\* C9: when main returns, status.json holds exactly one record per step of
\* make_steps, in the same order, and main's return value is 0.
C9_OneRecordPerStep ==
    orch_pc = "done" =>
        /\ orch_rc = Present(0)
        /\ status_json # Absent
        /\ Len(status_json[1]) = Len(steps)
        /\ \A i \in 1..Len(steps) : status_json[1][i].name = steps[i].name

\* witness of C9: main returned after a two-step run whose first step did not
\* end OK (ERROR or EXCEPTION) and whose second step was run
C9_Witness ==
    /\ orch_pc = "done"
    /\ Len(steps) = 2
    /\ status_json[1][1].status \in {"ERROR", "EXCEPTION"}
    /\ status_json[1][2].status = "OK"

\* the running step's process has outlived a positive step timeout
Overdue == proc = "running" /\ step_timeout_sec > 0 /\ elapsed > step_timeout_sec

\* C10: with a positive step timeout, in every output mode and heartbeat
\* setting, a step whose process is still running after the timeout is
\* eventually ended: run_step does not wait for it indefinitely.
C10_OverdueStepEnds == [](Overdue => <>(proc # "running"))

\* C11: in every output mode, SIGKILL is sent to a step's process only after
\* SIGTERM was sent to it.
C11_KillOnlyAfterTerm == sigkill_sent => sigterm_sent

\* C12: a step made for a missing script (optional) is recorded as skipped,
\* never with status ERROR, and no subprocess is launched for it.
C12_MissingScriptSkipped ==
    /\ \A i \in 1..Len(run_steps) :
           steps[i].optional => run_steps[i].skipped /\ run_steps[i].status # "ERROR"
    /\ proc # "none" => ~CurStep.optional

\* C16: in a file under tests/, every module-level @patch(...) decorator of a
\* function, with patch imported from unittest.mock, is reported by exactly
\* one test_patch_misuse Finding at the decorator's line, with is_test and
\* is_module_scope true and the decorated function's name, and the classifier
\* maps that Finding to SAFE.
IsMockPatchDecorator(f, i) ==
    LET l == f.lines[i]
        r == Resolve(f)
    IN  /\ l.depth = 0
        /\ l.st.kind = "Decorator"
        /\ l.st.call
        /\ l.st.dec = <<"patch">>
        /\ "patch" \in DOMAIN r.alias_to_module
        /\ r.alias_to_module["patch"] = <<"unittest", "mock", "patch">>
        /\ f.lines[DefLineOf(f, i)].st.kind = "FunctionDef"

ReportInit == WrInit /\ ScanIdle /\ ClsIdle /\ OrchIdle /\ ValIdle /\ JunitIdle /\ RunnerIdle /\ GraphIdle

ReportSpec == ReportInit /\ [][ReportNext]_vars

\* C13 as stated: with or without --with-git, every Finding has in every
\* field the value it was created with.
C13_NoFieldChanges ==
    \A i \in 1..Len(w_findings) : w_findings[i] = w_created[i]

ScanFields == {"file", "line", "category", "import_base"}

\* C13, amended: every field a Finding got from scan_file keeps its value;
\* only the three blame fields change, and only with --with-git.
C13_ScanFieldsKept ==
    /\ Len(w_findings) = Len(w_created)
    /\ \A i \in 1..Len(w_findings) :
           /\ \A fld \in ScanFields : w_findings[i][fld] = w_created[i][fld]
           /\ ~with_git => w_findings[i] = w_created[i]

\* witness of C13: the reports were written after a blame lookup succeeded
C13_Witness ==
    /\ w_pc = "done"
    /\ with_git
    /\ \E i \in 1..Len(w_findings) : w_findings[i].git_author # NoneVal

\* C14: whenever the run is interrupted, each artifact is absent or holds its
\* complete final content.
C14_ArtifactsAtomic ==
    w_pc = "interrupted" =>
        \A k \in 1..Len(Artifacts) :
            \/ w_files[Artifacts[k]] = Absent
            \/ w_files[Artifacts[k]] = Present(FinalContent(Artifacts[k], w_findings))

(***************************************************************************)
(* Properties of run_self_test                                             *)
(***************************************************************************)
SelfTestInit ==
    /\ files \in SelfTestOrders
    /\ strict = FALSE
    /\ context_lines = DEFAULT_CONTEXT_LINES
    /\ idx = 0
    /\ all_findings = <<>>
    /\ parse_errors = 0
    /\ reports = NotWritten
    /\ rc = NoRc
    /\ pc = "loop"
    /\ resolver = EmptyResolver
    /\ stack = <<>>
    /\ visitor = Scanner
    /\ pos = 1
    /\ findings = <<>>
    /\ nTree = 0
    /\ ClsIdle /\ OrchIdle /\ WrIdle /\ ValIdle /\ JunitIdle /\ RunnerIdle /\ GraphIdle

SelfTestSpec == SelfTestInit /\ [][SelfTestNext]_vars

\* C15: run_self_test finds each of the seven expected categories in the
\* fixtures and returns 0; it returns 2 exactly when one of them is missing.
C15_SelfTestPasses ==
    pc = "done" =>
        /\ \A c \in ExpectedCategories :
               \E i \in 1..Len(all_findings) : all_findings[i].category = c
        /\ rc = 0
        /\ (rc = 2) <=> (\E c \in ExpectedCategories : c \notin CategoriesOf(all_findings))

\* witness of C15: the self-test returned after scanning all eight fixtures
C15_Witness ==
    /\ pc = "done"
    /\ idx = 8
    /\ rc = 0
    /\ Len(all_findings) = 12

(***************************************************************************)
(* Properties of a run over several files                                  *)
(***************************************************************************)
\* what the tree pass reports from statement i on, as a function of the file
\* alone: module-level statements by the rules, module-level definitions by
\* their decorators, nothing for nested statements
RECURSIVE TreeFindingsFrom(_, _, _)
TreeFindingsFrom(fileId, f, i) ==
    IF i > Len(f.lines) THEN <<>>
    ELSE IF f.lines[i].depth > 0 THEN TreeFindingsFrom(fileId, f, i + 1)
    ELSE IF f.lines[i].st.kind \in {"Decorator", "FunctionDef", "AsyncFunctionDef", "ClassDef"}
        THEN (IF f.lines[DefLineOf(f, i)].st.kind = "AsyncFunctionDef" THEN <<>>
              ELSE DecoratorFindings(fileId, f, i, DefLineOf(f, i), Resolve(f)))
             \o TreeFindingsFrom(fileId, f, DefLineOf(f, i) + 1)
    ELSE RuleFindings(fileId, f, i) \o TreeFindingsFrom(fileId, f, i + 1)

\* what scan_file returns, as a function of path, content and strictness
FileFindings(fileId, f, isStrict) ==
    LET tree == TreeFindingsFrom(fileId, f, 1)
    IN  IF isStrict THEN tree
        ELSE tree \o FallbackAdditions(fileId, f, regex_fallback(f), SeenKeys(tree))

\* the findings of the first n files of the run, each scanned on its own
RECURSIVE RunFindings(_)
RunFindings(n) ==
    IF n = 0 THEN <<>>
    ELSE RunFindings(n - 1)
         \o (IF Parsable(files[n]) THEN FileFindings(n, files[n], strict) ELSE <<>>)

\* C19: the list scan_file returns for a file is a function of its path, its
\* content and the strict setting, whatever was scanned before it, and the
\* findings of the run are these lists in file order.
C19_ScanStateless ==
    /\ Returned => findings = FileFindings(idx + 1, CurFile, strict)
    /\ pc \in {"loop", "done"} => all_findings = RunFindings(idx)

\* witness of C19: the second file of a run returned findings after a first
\* file that filled its ImportResolver
C19_Witness ==
    /\ Returned
    /\ idx = 1
    /\ Resolve(files[1]) # EmptyResolver
    /\ Len(findings) > 0

\* C20: a Finding whose import_base is a project-owned package never has the
\* intent "override third-party behavior".
C20_OwnedNeverThirdParty ==
    \A i \in 1..Len(findings) :
        findings[i].import_base \in ProjectPkgs =>
            findings[i].intent # INTENT_OVERRIDE_THIRD_PARTY

(***************************************************************************)
(* Properties of the import resolution                                     *)
(***************************************************************************)
\* C21: no Finding of category attribute_reassignment_on_import or
\* import_time_side_effect has import_base logging or warnings.
C21_SingletonNeverReassignment ==
    \A i \in 1..Len(findings) :
        findings[i].category \in {CATEGORY_ATTRIBUTE_REASSIGNMENT, CATEGORY_IMPORT_TIME} =>
            findings[i].import_base \notin KNOWN_SINGLETON_BASES

\* the name an import statement binds in Python, and its top-level module
BoundName(st) ==
    IF st.kind = "Import" THEN (IF st.asname # "" THEN st.asname ELSE st.name[1])
    ELSE IF st.asname # "" THEN st.asname ELSE st.name

TopModule(st) == IF st.kind = "Import" THEN st.name[1] ELSE st.module[1]

IsImport(st) == st.kind \in {"Import", "ImportFrom"}

\* C25: a module-scope assignment to an attribute whose outermost name was
\* bound by an import statement of the file (import pkg.sub binds pkg) is
\* reported as attribute_reassignment_on_import with the import's top-level
\* module as import_base, unless a special rule (builtins, logging, warnings)
\* takes it.
C25_DottedImportResolvable ==
    Returned =>
        \A i \in 1..Len(CurFile.lines), j \in 1..Len(CurFile.lines) :
            LET st == CurFile.lines[i].st
                imp == CurFile.lines[j].st
            IN  (/\ CurFile.lines[i].depth = 0
                 /\ st.kind = "Assign"
                 /\ st.targets[1].t = "Attribute"
                 /\ st.targets[1].dotted[1] \notin KNOWN_SINGLETON_BASES \cup {"builtins"}
                 /\ IsImport(imp)
                 /\ BoundName(imp) = st.targets[1].dotted[1])
                => \E n \in 1..Len(findings) :
                       /\ findings[n].line = LineNo(CurFile, i)
                       /\ findings[n].category = CATEGORY_ATTRIBUTE_REASSIGNMENT
                       /\ findings[n].import_base = TopModule(imp)

(***************************************************************************)
(* Properties of the ScopeTracker                                          *)
(***************************************************************************)
\* the name of the topmost entry of the given kind, None if there is none
TopName(stk, kind) ==
    LET at == {n \in 1..Len(stk) : stk[n][1] = kind}
    IN  IF at = {} THEN NoneVal
        ELSE stk[CHOOSE n \in at : \A k \in at : k <= n][2]

\* C22: the stack holds one (kind, name) entry for each definition enclosing
\* the node being visited, outermost first, so every visit of a definition has
\* pushed one entry and left the stack as it found it; it is empty when the
\* tree pass is over; current() is (stack is empty, topmost function name,
\* topmost class name), the names looked up independently.
C22_ScopeBalanced ==
    /\ AtNode => stack = EnclosingStack(CurFile, pos)
    /\ TreePassOver => stack = <<>>
    /\ pc = "visit" =>
           /\ current(stack).is_module_scope = (Len(stack) = 0)
           /\ current(stack).fn = TopName(stack, "function")
           /\ current(stack).cl = TopName(stack, "class")

\* witness of C22: the visits of an inner class and of an async function
\* around it have returned to the body of the outermost definition
C22_Witness ==
    /\ AtNode
    /\ pos = 5
    /\ Len(stack) = 1
    /\ CurFile.lines[2].st.kind = "AsyncFunctionDef"
    /\ CurFile.lines[3].st.kind = "ClassDef"
    /\ CurFile.lines[4].depth = 3

(***************************************************************************)
(* Strict and non-strict scans                                             *)
(***************************************************************************)
IsMinimalFinding(fd) ==
    /\ fd.is_module_scope
    /\ fd.import_base = NoneVal
    /\ fd.function = NoneVal
    /\ fd.class_name = NoneVal

\* C23: what scan_file returns for a parsable file starts with the tree-based
\* findings, the same list whether strict or not; a strict scan returns nothing
\* more; what follows in a non-strict scan are fallback findings, each minimal
\* (module scope, no import_base, no function, no class_name) and with a
\* (line, category) that no tree-based finding has.
C23_StrictIsPrefix ==
    Returned =>
        /\ nTree <= Len(findings)
        /\ SubSeq(findings, 1, nTree) = TreeFindingsFrom(idx + 1, CurFile, 1)
        /\ strict => Len(findings) = nTree
        /\ \A i \in (nTree + 1)..Len(findings) :
               /\ IsMinimalFinding(findings[i])
               /\ KeyOf(findings[i]) \in RegexKeys
               /\ \A k \in 1..nTree : KeyOf(findings[k]) # KeyOf(findings[i])

\* witness of C23: a non-strict scan returned tree-based findings followed by
\* fallback findings, and left out a fallback hit on a key the tree pass had
C23_Witness ==
    /\ Returned
    /\ ~strict
    /\ nTree > 0
    /\ Len(findings) > nTree
    /\ TreeKeys \cap RegexKeys # {}

(***************************************************************************)
(* The context window                                                      *)
(***************************************************************************)
\* C24: the context of every returned Finding, tree-based or fallback, is the
\* window of source lines from max(1, line - n) to min(number of lines,
\* line + n), n being the --context-lines of the run.
C24_ContextUsesSetting ==
    Returned =>
        \A i \in 1..Len(findings) :
            LET first == IF findings[i].line - context_lines > 1
                         THEN findings[i].line - context_lines ELSE 1
                last == IF findings[i].line + context_lines < NumTextLines(CurFile)
                        THEN findings[i].line + context_lines ELSE NumTextLines(CurFile)
            IN  /\ Len(findings[i].context) = last - first + 1
                /\ \A k \in 1..Len(findings[i].context) :
                       findings[i].context[k] = first + k - 1

(***************************************************************************)
(* The environment of the steps                                            *)
(***************************************************************************)
\* C26: while the subprocess of a step runs, its environment is the
\* orchestrator's environment overlaid with the step's env overrides; for a
\* fault step it holds FAULT_ENABLE and the run's FAULT_OUTDIR.
C26_StepEnvOverlaid ==
    proc = "running" =>
        \A n \in EnvNames :
            proc_env[n] = IF CurStep.env[n] # Unset THEN CurStep.env[n] ELSE os_environ[n]

(***************************************************************************)
(* Properties of validate_inventory                                        *)
(***************************************************************************)
ValidatorInit == ValInit /\ ScanIdle /\ ClsIdle /\ OrchIdle /\ WrIdle /\ JunitIdle /\ RunnerIdle /\ GraphIdle

ValidatorSpec == ValidatorInit /\ [][ValidatorNext]_vars

\* the enums under which a record holds a value the registry does not list
ViolatedEnums(record) ==
    {e \in {"asset_kind", "maturity", "status"} : record[e] \notin Registry[e]}
    \cup {e \in {"roles", "consumers"} :
              \E n \in 1..Len(record[e]) : record[e][n] \notin Registry[e]}

HasEnumIssue(fi, record, e) ==
    \E n \in 1..Len(v_issues) :
        /\ v_issues[n].level = "error"
        /\ v_issues[n].file = fi
        /\ v_issues[n].record_id = record.id
        /\ v_issues[n].enum = e

\* C17: when main returns, every record of every file, at any position, that
\* holds a value outside the enum registry has an error issue naming that enum
\* and main returns 1; main returns 0 only if no record violates the schema.
C17_EveryRecordChecked ==
    v_pc = "done" =>
        /\ \A fi \in 1..Len(inv_files) :
               \A ri \in 1..Len(inv_files[fi]) :
                   \A e \in ViolatedEnums(inv_files[fi][ri]) :
                       /\ HasEnumIssue(fi, inv_files[fi][ri], e)
                       /\ v_rc = 1
        /\ v_rc = 0 =>
               \A fi \in 1..Len(inv_files) :
                   \A ri \in 1..Len(inv_files[fi]) :
                       /\ ViolatedEnums(inv_files[fi][ri]) = {}
                       /\ inv_files[fi][ri].path_exists

(***************************************************************************)
(* Properties of _pick_best_junit                                          *)
(***************************************************************************)
JunitInitAll == JunitInit /\ ScanIdle /\ ClsIdle /\ OrchIdle /\ WrIdle /\ ValIdle /\ RunnerIdle /\ GraphIdle

JunitSpec == JunitInitAll /\ [][JunitNext]_vars

\* the total test count of a file, summed over its suites
TotalTests(p) == IF p.content.parses THEN SumSeq(p.content.suites) ELSE 0

IsInternalOnly(p) == p.content.parses /\ TotalTests(p) = 1 /\ p.content.internal

\* p is a best pick of the set: highest total, and latest mtime at that total
BestOf(p, among) ==
    /\ p \in among
    /\ \A q \in among :
           \/ TotalTests(q) < TotalTests(p)
           \/ TotalTests(q) = TotalTests(p) /\ q.mtime <= p.mtime

C18_WitnessInternal ==
    /\ j_pc = "done"
    /\ Len(j_cands) > 1
    /\ j_result # Absent
    /\ IsInternalOnly(j_result[1])


(***************************************************************************)
(* Properties of pytest_log_runner                                         *)
(***************************************************************************)
MainInit ==
    RunnerInit /\ ScanIdle /\ ClsIdle /\ OrchIdle /\ WrIdle /\ ValIdle /\ JunitIdle /\ GraphIdle

RunnerSpec == MainInit /\ [][RunnerNext]_vars

\* a command without its first occurrence of flag and the value after it
WithoutFlagAndValue(c, flag) ==
    LET at == {i \in 1..Len(c) : c[i] = flag}
    IN  IF at = {} THEN c
        ELSE LET i == CHOOSE k \in at : \A j \in at : k <= j
             IN  SubSeq(c, 1, i - 1) \o SubSeq(c, i + 2, Len(c))

\* the parts of C27 about when a retry runs and what main returns
RetryOnlyWhenWanted ==
    /\ Len(launched) <= 2
    /\ Len(launched) = 2 =>
           /\ xdist_used
           /\ fallback_serial
           /\ outcomes[1].terminated \/ outcomes[1].rc < 0
           /\ pr_pc = "done" => pr_result = Present(outcomes[2].rc)

\* C27: main retries at most once, and only when xdist was used, the first run
\* was terminated by the watchdog or exited by a signal, and the serial
\* fallback is on; the retry's command is the first command without -n and
\* the value after it, every other argument unchanged in order; main then
\* returns the retry's exit code.
C27_SerialFallback ==
    /\ RetryOnlyWhenWanted
    /\ Len(launched) = 2 => launched[2] = WithoutFlagAndValue(launched[1], "-n")

Notices(ls) == CountOf(ls, "sent SIGUSR1") + CountOf(ls, "SIGUSR1 disabled")

WatchdogOrderState ==
    /\ Notices(pr_lines) <= 1
    /\ CountOf(signals, "SIGUSR1") <= 1
    /\ CountOf(signals, "SIGUSR1") > 0 => enable_sigusr1
    /\ \A i \in 1..Len(signals) :
           /\ signals[i] = "SIGTERM" =>
                  /\ Notices(pr_lines) = 1
                  /\ pr_idle >= IdleTimeout + EscalationGrace
                  /\ pr_pc # "loop"
                  /\ loop_terminated
           /\ signals[i] = "SIGKILL" => \E j \in 1..(i - 1) : signals[j] = "SIGTERM"

WatchdogOrderStep ==
    /\ Notices(pr_lines') > Notices(pr_lines) => pr_idle' >= IdleTimeout
    /\ Len(signals') > Len(signals) /\ Last(signals') \in {"SIGTERM", "SIGKILL"} =>
           /\ Notices(pr_lines') = 1
           /\ pr_idle' >= IdleTimeout + EscalationGrace
    /\ Len(outcomes') > Len(outcomes) /\ CountOf(signals, "SIGTERM") > 0 =>
           Last(outcomes').terminated

\* C28: in each run the idle notice (or SIGUSR1) is issued at most once and
\* only when the child has been silent for the idle timeout; SIGUSR1 is sent
\* only when enabled; SIGTERM is sent only after the notice, at an idle time
\* of at least idle timeout + escalation grace; SIGKILL only after SIGTERM;
\* after the escalation the loop is over and the call returns terminated.
C28_WatchdogOrder == [](WatchdogOrderState) /\ [][WatchdogOrderStep]_vars

\* the child went silent, was noticed, spoke again, went silent for longer and
\* was terminated and killed; the call has returned
C28_Witness ==
    /\ pr_lines = <<"sent SIGUSR1", "out", "sent SIGTERM", "sent SIGKILL">>
    /\ signals = <<"SIGUSR1", "SIGTERM", "SIGKILL">>
    /\ outcomes # <<>>
    /\ Last(outcomes).terminated
    /\ Last(outcomes).rc = -9


(***************************************************************************)
(* Properties of find_cycles and of the summary's cycle list               *)
(***************************************************************************)
ImportGraphInit ==
    /\ GraphInit
    /\ ScanIdle /\ ClsIdle /\ OrchIdle /\ WrIdle /\ ValIdle /\ JunitIdle /\ RunnerIdle

ImportGraphSpec == ImportGraphInit /\ [][GraphNext]_vars

IsEdge(a, b) == b \in Elems(graph_adj[a])

RECURSIVE ReachIn(_, _)
ReachIn(a, k) ==
    IF k = 0 THEN {a}
    ELSE LET r == ReachIn(a, k - 1)
         IN  r \cup {b \in Nodes : \E x \in r : IsEdge(x, b)}

HasProperCycle ==
    \E a, b \in Nodes :
        /\ a # b
        /\ b \in ReachIn(a, Cardinality(Nodes))
        /\ a \in ReachIn(b, Cardinality(Nodes))

IsRotationOf(c, d) ==
    LET n == Len(c) - 1
    IN  /\ Len(d) = Len(c)
        /\ \E k \in 0..(n - 1) : \A i \in 1..n : d[i] = c[((i - 1 + k) % n) + 1]

WellFormedCycle(c) ==
    LET n == Len(c) - 1
    IN  /\ n >= 2
        /\ c[n + 1] = c[1]
        /\ \A i, j \in 1..n : c[i] = c[j] => i = j
        /\ \A i \in 1..n : IsEdge(c[i], c[i + 1])
        /\ \A i \in 1..n : NameRank(c[1]) <= NameRank(c[i])

\* C29: every cycle find_cycles returns is n0, ..., nk, n0 over at least two
\* distinct nodes, along edges of the graph, with n0 the smallest name of the
\* cycle; no two returned cycles are rotations of one another; and a graph
\* with a directed cycle through two distinct nodes gives a non-empty result.
C29_FindCycles ==
    ig_pc # "built" =>
        /\ \A i \in 1..Len(ig_cycles) : WellFormedCycle(ig_cycles[i])
        /\ \A i, j \in 1..Len(ig_cycles) :
               i # j => ~IsRotationOf(ig_cycles[i], ig_cycles[j])
        /\ HasProperCycle => ig_cycles # <<>>

\* a graph with a self import whose cycles of two and of three nodes are found
C29_Witness ==
    /\ ig_pc # "built"
    /\ \E n \in Nodes : IsEdge(n, n)
    /\ \E i, j \in 1..Len(ig_cycles) : Len(ig_cycles[i]) = 3 /\ Len(ig_cycles[j]) = 4
    /\ \E a \in Nodes : ~IsEdge(a, NodeNames[1])

FirstCycles == SubSeq(ig_cycles, 1, IF Len(ig_cycles) < 10 THEN Len(ig_cycles) ELSE 10)

\* C30: when report.md lists cycles, the summary's Cycles (first 10) list
\* holds the first (up to 10) of them, and it shows "None detected" only when
\* report.md lists no cycle.
C30_SummaryShowsCycles ==
    ig_pc = "summarized" =>
        /\ \A i \in 1..Len(FirstCycles) :
               \E j \in 1..Len(sum_cycles) : sum_cycles[j] = JoinArrow(FirstCycles[i])
        /\ sum_cycles = <<<<"None detected">>>> => ig_cycles = <<>>

====
